---- MODULE Spec2Model ----
(***************************************************************************)
(* Model of the MikroTik gateway's connection manager                      *)
(* (services/mikrotik_service.go): the RouterID -> connection map guarded  *)
(* by MikrotikService.mu, the per-connection command lock                  *)
(* MikrotikConnection.mu, dialWithTimeout and its worker goroutine, the    *)
(* health sweep, and the traffic monitor's Listen subscriptions.           *)
(*                                                                         *)
(* A task is one goroutine running one service call.  Each action is one   *)
(* atomic step of that call, cut at the points where the goroutine can     *)
(* block (a lock, a network call).  A lock acquisition is merged with the  *)
(* lock-protected statements that follow it.                               *)
(***************************************************************************)
EXTENDS Integers, FiniteSets, Sequences, TLC

\* ---------------------------------------------------------------- bounds
NumTasks == 2          \* goroutines serving requests at the same time
MaxDials == 2          \* dial attempts per router in one behaviour

Routers  == {1, 2}     \* router ids in the registry
Tasks    == 1..NumTasks
Sessions == Routers \X (1..MaxDials)   \* <<router, n>>: the n-th client dialled for router
NoConn   == <<0, 0>>                   \* a nil *MikrotikConnection / missing map entry

MaxSubs  == 2          \* Listen calls in one behaviour
MaxEmit  == 2          \* samples a subscription delivers in one behaviour
MaxChan  == 2          \* sentences waiting in one subscription's channel
MaxQuery == 2          \* characters of an interface/interfaces query value
MaxMade  == 2          \* MikrotikService values made in one behaviour

Subs     == 1..MaxSubs
Clients  == {"A", "B"}                 \* streaming clients, one context each
Ifaces   == {"ether1"}                 \* interface names asked for
Words    == {"!re", "!trap", "!done"}  \* reply words of a sentence
NoArg    == <<"", "">>
NoHolder == <<"free", 0>>              \* wsMutex is unlocked
NoEvents == [error |-> 0, connected |-> FALSE, invalid |-> 0]
NoQuery  == [p |-> "", ifs |-> <<>>, if1 |-> <<>>]
NoReq    == [h |-> "", p |-> "", a |-> <<>>]
NoResp   == [code |-> "none", success |-> FALSE, error |-> ""]
NoSub    == [state |-> "none", sess |-> NoConn, iface |-> "", ctx |-> "",
             chan |-> <<>>, closed |-> FALSE, gpc |-> "none",
             delivered |-> 0, last |-> 0, dropped |-> FALSE,
             skipped |-> FALSE]

VARIABLES
    connections,  \* ms.connections: router id -> session, NoConn when absent
    client,       \* per session: state of its routeros.Client and dial worker
    IsHealthy,    \* MikrotikConnection.IsHealthy
    mu,           \* ms.mu write lock: the set of tasks holding it (empty: free)
    connMuW,      \* conn.mu write side: "free", "cmd" (a command) or "check" (checkConnection)
    connMuR,      \* conn.mu read side: the tasks holding RLock
    lockq,        \* conn.mu: the tasks blocked in Lock()/RLock(), in order of arrival
    dialCount,    \* per router: dial attempts started so far
    repoActive,   \* registry: routers.is_active
    repoStatus,   \* registry: routers.status
    repoVersion,  \* registry: routers.version is set (not NULL)
    chk,          \* per session: its checkConnection goroutine
    pc,           \* per task: where its goroutine stands
    op,           \* per task: the service call it runs
    rid,          \* per task: routerID argument
    conn,         \* per task: local variable conn
    err,          \* per task: the error it returned ("" is nil)
    pre,          \* per task (history): what held when the call started.
                  \* "stale": the map held a session marked unhealthy;
                  \* "inactive": the descriptor was inactive and the map held no
                  \* healthy session, and both have stayed so since
    marg,         \* per task: <<interfaceName, ctx>> of a monitor call
    subs,         \* per Listen call: the subscription and its dispatch goroutine
    ctxDone,      \* per streaming client: its context has been cancelled
    hpc,          \* per streaming client: where its MonitorTrafficWS handler stands
    nif,          \* per streaming client: len(interfaces)
    startErrors,  \* per streaming client: len(startErrors)
    rpc,          \* per streaming client: where the handler's read goroutine stands
    wsMutex,      \* per streaming client: who holds wsMutex
    wsOpen,       \* per streaming client: the handler's wsOpen flag
    doneCh,       \* per streaming client: values waiting in the done channel
    events,       \* per streaming client: the status events written to the socket
    req,          \* per task: the HTTP request its handler is validating
    resp,         \* per task: the response to the HTTP request it serves
    resultChan,   \* per task: errors waiting in ConnectRouterHandler's resultChan
    wsreq,        \* per streaming client: the query of a request that was refused
    serviceInstance, \* the package variable: 0 is nil, n the n-th MikrotikService made
    serviceOnce,  \* the sync.Once: its done flag and the holder of its mutex
    setup,        \* per caller of GetMikrotikService: where it stands, what it got
    started       \* how often each background goroutine has been started

mgrVars  == <<connections, client, IsHealthy, mu, dialCount>>
lockVars == <<connMuW, connMuR, lockq>>
repoVars == <<repoActive, repoStatus, repoVersion>>
taskVars == <<pc, op, rid, conn, err, pre>>
monVars  == <<marg, subs, ctxDone>>
wsVars   == <<hpc, nif, startErrors, rpc, wsMutex, wsOpen, doneCh, events>>
httpVars == <<req, resp, resultChan, wsreq>>
svcVars  == <<serviceInstance, serviceOnce, setup, started>>
vars     == <<mgrVars, lockVars, repoVars, chk, taskVars, monVars, wsVars, httpVars, svcVars>>

\* the callers of GetMikrotikService: the two route setups and one more
Callers == {"SetupRoutes", "SetupWebSocketRoutes", "other"}

Ops == {"Connect", "Disconnect", "GetConn", "ReadCmd", "WriteCmd"}

\* ---------------------------------------------------------------- helpers
RouterOf(s) == s[1]

\* a healthy session for d is in the map
HealthyInMap(d) == connections[d] # NoConn /\ IsHealthy[connections[d]]

\* a session marked unhealthy is still d's map entry
StaleInMap(d) == connections[d] # NoConn /\ ~IsHealthy[connections[d]]

\* (mutation of MuAvailable) ConnectRouter gives up ms.mu while it dials
MuNotHeldAcrossDial == TRUE

\* ms.mu.Lock() / ms.mu.RLock() can be taken: no writer holds ms.mu.  Readers
\* hold it only for one map read, which is a single step here.
MuAvailable == mu = {}

\* the client ConnectRouter's dialWithTimeout call is producing
DialSid(t) == <<rid[t], dialCount[rid[t]]>>

\* tasks with a Run/RunArgs in flight on session s
Running(s) == {t \in Tasks : pc[t] \in {"cmd_run", "cmd_set"} /\ conn[t] = s}

\* synchronous commands in flight on s, the health sweep's included
InFlight(s) == Cardinality(Running(s)) + (IF chk[s] = "running" THEN 1 ELSE 0)

\* a device command on s can only succeed while its client is open
Outcomes(s) == IF client[s] = "open" THEN BOOLEAN ELSE {FALSE}

\* how a service call starts
Entry(o) == CASE o \in {"Connect", "Reconnect"} -> "cr_start"
              [] o = "Disconnect" -> "dr_start"
              [] OTHER -> "gc_start"

\* where GetConnection's caller goes with a healthy connection
AfterGetConnection(o) == CASE o = "GetConn" -> "done"
                           [] o = "Monitor" -> "mon_listen"
                           [] OTHER -> "cmd_lock"

\* ConnectRouter returns e: to its caller, or into GetConnection
ReturnPc(t, e) == IF op[t] \in {"Connect", "Reconnect"} \/ e # ""
                  THEN "done" ELSE "gc_read2"

\* ---------------------------------------------------------------- init
InitManager ==
    /\ connections = [d \in Routers |-> NoConn]
    /\ client = [s \in Sessions |-> "none"]
    /\ IsHealthy = [s \in Sessions |-> FALSE]
    /\ mu = {}
    /\ connMuW = [s \in Sessions |-> "free"]
    /\ connMuR = [s \in Sessions |-> {}]
    /\ lockq = [s \in Sessions |-> <<>>]
    /\ dialCount = [d \in Routers |-> 0]
    /\ repoActive = [d \in Routers |-> TRUE]
    /\ repoStatus = [d \in Routers |-> "offline"]
    /\ repoVersion = [d \in Routers |-> FALSE]
    /\ chk = [s \in Sessions |-> "idle"]
    /\ pc = [t \in Tasks |-> "idle"]
    /\ op = [t \in Tasks |-> ""]
    /\ rid = [t \in Tasks |-> 0]
    /\ conn = [t \in Tasks |-> NoConn]
    /\ err = [t \in Tasks |-> ""]
    /\ pre = [t \in Tasks |-> {}]
    /\ marg = [t \in Tasks |-> NoArg]
    /\ subs = [k \in Subs |-> NoSub]
    /\ ctxDone = [c \in Clients |-> FALSE]
    /\ hpc = [c \in Clients |-> "none"]
    /\ nif = [c \in Clients |-> 0]
    /\ startErrors = [c \in Clients |-> 0]
    /\ rpc = [c \in Clients |-> "none"]
    /\ wsMutex = [c \in Clients |-> NoHolder]
    /\ wsOpen = [c \in Clients |-> FALSE]
    /\ doneCh = [c \in Clients |-> 0]
    /\ events = [c \in Clients |-> NoEvents]
    /\ req = [t \in Tasks |-> NoReq]
    /\ resp = [t \in Tasks |-> NoResp]
    /\ resultChan = [t \in Tasks |-> 0]
    /\ wsreq = [c \in Clients |-> NoQuery]

\* the package before any call of GetMikrotikService
InitPackage ==
    /\ serviceInstance = 0
    /\ serviceOnce = [done |-> FALSE, m |-> ""]
    /\ setup = [c \in Callers |-> [pc |-> "idle", got |-> 0]]
    /\ started = [auto |-> 0, sweep |-> 0, made |-> 0]

\* the package once the route setups have fetched the service
InitConstructed ==
    /\ serviceInstance = 1
    /\ serviceOnce = [done |-> TRUE, m |-> ""]
    /\ setup = [c \in Callers |-> [pc |-> "returned", got |-> 1]]
    /\ started = [auto |-> 1, sweep |-> 1, made |-> 1]

Init == InitManager /\ InitConstructed

\* ---------------------------------------------------------------- GetMikrotikService
\* (mutation of OnceDo) the slow path of Do runs f without taking the Once's
\* mutex and without looking at done again
OnceDoUnlocked(c) ==
    /\ setup[c].pc = "do"
    /\ setup' = [setup EXCEPT ![c].pc = IF serviceOnce.done THEN "return" ELSE "make"]
    /\ UNCHANGED <<serviceInstance, serviceOnce, started, mgrVars, lockVars, repoVars, chk,
                   taskVars, monVars, wsVars, httpVars>>

\* a caller enters GetMikrotikService
GetMikrotikService(c) ==
    /\ setup[c].pc = "idle"
    /\ setup' = [setup EXCEPT ![c].pc = "do"]
    /\ UNCHANGED <<serviceInstance, serviceOnce, started, mgrVars, lockVars, repoVars, chk,
                   taskVars, monVars, wsVars, httpVars>>

\* serviceOnce.Do(f): with done set it returns at once; else it takes the
\* Once's mutex (waiting for a caller that holds it), looks at done again
\* and, if it is still unset, runs f
OnceDo(c) ==
    /\ setup[c].pc = "do"
    /\ IF serviceOnce.done
       THEN /\ setup' = [setup EXCEPT ![c].pc = "return"]
            /\ UNCHANGED serviceOnce
       ELSE /\ serviceOnce.m = ""
            /\ serviceOnce' = [serviceOnce EXCEPT !.m = c]
            /\ setup' = [setup EXCEPT ![c].pc = "make"]
    /\ UNCHANGED <<serviceInstance, started, mgrVars, lockVars, repoVars, chk,
                   taskVars, monVars, wsVars, httpVars>>

\* f: serviceInstance = &MikrotikService{...}
MakeService(c) ==
    /\ setup[c].pc = "make"
    /\ started.made < MaxMade
    /\ started' = [started EXCEPT !.made = @ + 1]
    /\ serviceInstance' = started.made + 1
    /\ setup' = [setup EXCEPT ![c].pc = "go_auto"]
    /\ UNCHANGED <<serviceOnce, mgrVars, lockVars, repoVars, chk,
                   taskVars, monVars, wsVars, httpVars>>

\* f: go serviceInstance.autoConnectActiveRouters()
StartAutoConnect(c) ==
    /\ setup[c].pc = "go_auto"
    /\ started' = [started EXCEPT !.auto = @ + 1]
    /\ setup' = [setup EXCEPT ![c].pc = "go_sweep"]
    /\ UNCHANGED <<serviceInstance, serviceOnce, mgrVars, lockVars, repoVars, chk,
                   taskVars, monVars, wsVars, httpVars>>

\* f: go serviceInstance.healthCheckRoutine(); f returns, Do sets done and
\* releases the Once's mutex if it holds it
StartHealthCheck(c) ==
    /\ setup[c].pc = "go_sweep"
    /\ started' = [started EXCEPT !.sweep = @ + 1]
    /\ serviceOnce' = [done |-> TRUE, m |-> IF serviceOnce.m = c THEN "" ELSE serviceOnce.m]
    /\ setup' = [setup EXCEPT ![c].pc = "return"]
    /\ UNCHANGED <<serviceInstance, mgrVars, lockVars, repoVars, chk,
                   taskVars, monVars, wsVars, httpVars>>

\* return serviceInstance
GetMikrotikServiceReturn(c) ==
    /\ setup[c].pc = "return"
    /\ setup' = [setup EXCEPT ![c] = [pc |-> "returned", got |-> serviceInstance]]
    /\ UNCHANGED <<serviceInstance, serviceOnce, started, mgrVars, lockVars, repoVars, chk,
                   taskVars, monVars, wsVars, httpVars>>

\* a caller calls again
CallAgain(c) ==
    /\ setup[c].pc = "returned"
    /\ setup' = [setup EXCEPT ![c] = [pc |-> "idle", got |-> 0]]
    /\ UNCHANGED <<serviceInstance, serviceOnce, started, mgrVars, lockVars, repoVars, chk,
                   taskVars, monVars, wsVars, httpVars>>

\* ---------------------------------------------------------------- requests
\* a request arrives: an idle goroutine starts service call o for router d
Call(t, o, d) ==
    /\ pc[t] = "idle"
    /\ pc' = [pc EXCEPT ![t] = Entry(o)]
    /\ op' = [op EXCEPT ![t] = o]
    /\ rid' = [rid EXCEPT ![t] = d]
    /\ pre' = [pre EXCEPT ![t] =
                  (IF ~repoActive[d] /\ ~HealthyInMap(d) THEN {"inactive"} ELSE {})
                  \cup (IF StaleInMap(d) THEN {"stale"} ELSE {})]
    /\ UNCHANGED <<svcVars, httpVars, wsVars, monVars, conn, err, mgrVars, lockVars, repoVars, chk>>

\* the caller has consumed the result; the goroutine ends
Reset(t) ==
    /\ pc[t] = "done"
    /\ pc' = [pc EXCEPT ![t] = "idle"]
    /\ op' = [op EXCEPT ![t] = ""]
    /\ rid' = [rid EXCEPT ![t] = 0]
    /\ conn' = [conn EXCEPT ![t] = NoConn]
    /\ err' = [err EXCEPT ![t] = ""]
    /\ pre' = [pre EXCEPT ![t] = {}]
    /\ marg' = [marg EXCEPT ![t] = NoArg]
    /\ UNCHANGED <<svcVars, httpVars, wsVars, subs, ctxDone, mgrVars, lockVars, repoVars, chk>>

\* PATCH /api/routers/{id}/active: the registry's activation flag changes
SetActive(d, b) ==
    /\ repoActive[d] # b
    /\ repoActive' = [repoActive EXCEPT ![d] = b]
    /\ pre' = [t \in Tasks |-> IF b /\ rid[t] = d THEN pre[t] \ {"inactive"} ELSE pre[t]]
    /\ UNCHANGED <<svcVars, httpVars, wsVars, monVars, repoStatus, repoVersion, pc, op, rid, conn, err, mgrVars, lockVars, chk>>

\* (mutation of ConnectRouter) the unhealthy connection is closed and its map
\* entry is left in place until a new connection overwrites it
ConnectRouterKeepsEntry(t) ==
    /\ pc[t] = "cr_start"
    /\ MuAvailable
    /\ LET d == rid[t]
           c == connections[d]
           n == <<d, dialCount[d] + 1>>
       IN IF c # NoConn /\ IsHealthy[c]
          THEN /\ pc' = [pc EXCEPT ![t] = IF op[t] \in {"Connect", "Reconnect"}
                                          THEN "done" ELSE "gc_read2"]
               /\ UNCHANGED <<err, mgrVars, repoVars>>
          ELSE IF ~repoActive[d]
          THEN /\ client' = IF c # NoConn THEN [client EXCEPT ![c] = "closed"] ELSE client
               /\ pc' = [pc EXCEPT ![t] = "done"]
               /\ err' = [err EXCEPT ![t] = "inactive"]
               /\ UNCHANGED <<connections, IsHealthy, mu, dialCount, repoVars>>
          ELSE /\ dialCount[d] < MaxDials
               /\ client' = [s \in Sessions |->
                               IF s = n THEN "dialing"
                               ELSE IF s = c THEN "closed" ELSE client[s]]
               /\ dialCount' = [dialCount EXCEPT ![d] = @ + 1]
               /\ mu' = {t}
               /\ pc' = [pc EXCEPT ![t] = "cr_dial"]
               /\ UNCHANGED <<connections, err, IsHealthy, repoVars>>
    /\ UNCHANGED <<svcVars, httpVars, wsVars, monVars, op, rid, conn, pre, lockVars, chk>>

\* (mutation of ConnectRouter) the already-connected path reports the router
\* "online" to the registry before it returns
ConnectRouterRewritesStatus(t) ==
    /\ pc[t] = "cr_start"
    /\ MuAvailable
    /\ LET d == rid[t]
           c == connections[d]
           n == <<d, dialCount[d] + 1>>
       IN IF c # NoConn /\ IsHealthy[c]
          THEN /\ pc' = [pc EXCEPT ![t] = IF op[t] \in {"Connect", "Reconnect"}
                                          THEN "done" ELSE "gc_read2"]
               /\ repoStatus' = [repoStatus EXCEPT ![d] = "online"]
               /\ UNCHANGED <<err, mgrVars, repoActive, repoVersion>>
          ELSE IF ~repoActive[d]
          THEN /\ connections' = [connections EXCEPT ![d] = NoConn]
               /\ client' = IF c # NoConn THEN [client EXCEPT ![c] = "closed"] ELSE client
               /\ pc' = [pc EXCEPT ![t] = "done"]
               /\ err' = [err EXCEPT ![t] = "inactive"]
               /\ UNCHANGED <<IsHealthy, mu, dialCount, repoVars>>
          ELSE /\ dialCount[d] < MaxDials
               /\ connections' = [connections EXCEPT ![d] = NoConn]
               /\ client' = [s \in Sessions |->
                               IF s = n THEN "dialing"
                               ELSE IF s = c THEN "closed" ELSE client[s]]
               /\ dialCount' = [dialCount EXCEPT ![d] = @ + 1]
               /\ mu' = {t}
               /\ pc' = [pc EXCEPT ![t] = "cr_dial"]
               /\ UNCHANGED <<err, IsHealthy, repoVars>>
    /\ UNCHANGED <<svcVars, httpVars, wsVars, monVars, op, rid, conn, pre, lockVars, chk>>

\* ---------------------------------------------------------------- ConnectRouter
\* ms.mu.Lock(); the already-connected check; eviction of an unhealthy
\* connection; repo.GetByID; the IsActive check; dialWithTimeout starts its worker.
ConnectRouter(t) ==
    /\ pc[t] = "cr_start"
    /\ MuAvailable
    /\ LET d == rid[t]
           c == connections[d]
           n == <<d, dialCount[d] + 1>>
       IN IF c # NoConn /\ IsHealthy[c]
          THEN /\ pc' = [pc EXCEPT ![t] = ReturnPc(t, "")]
               /\ UNCHANGED <<err, mgrVars, repoVars>>
          ELSE IF ~repoActive[d]
          THEN /\ connections' = [connections EXCEPT ![d] = NoConn]
               /\ client' = IF c # NoConn THEN [client EXCEPT ![c] = "closed"] ELSE client
               /\ pc' = [pc EXCEPT ![t] = "done"]
               /\ err' = [err EXCEPT ![t] = "inactive"]
               /\ UNCHANGED <<IsHealthy, mu, dialCount, repoVars>>
          ELSE /\ dialCount[d] < MaxDials
               /\ connections' = [connections EXCEPT ![d] = NoConn]
               /\ client' = [s \in Sessions |->
                               IF s = n THEN "dialing"
                               ELSE IF s = c THEN "closed" ELSE client[s]]
               /\ dialCount' = [dialCount EXCEPT ![d] = @ + 1]
               /\ mu' = {t}
               /\ pc' = [pc EXCEPT ![t] = "cr_dial"]
               /\ UNCHANGED <<err, IsHealthy, repoVars>>
    /\ UNCHANGED <<svcVars, httpVars, wsVars, monVars, op, rid, conn, pre, lockVars, chk>>

\* resultChan := make(chan result, 1)
DialChanCap == 1

\* (mutation of DialSendProceeds) resultChan is unbuffered: the send waits for
\* dialWithTimeout's receive
DialSendUnbuffered(s) == client[s] = "dialing"

\* the worker's one send on its resultChan proceeds: dialWithTimeout is still
\* in its select, or the buffer, into which nothing else is ever sent, has
\* room for it
DialSendProceeds(s) == client[s] = "dialing" \/ DialChanCap > 0

\* the worker goroutine of dialWithTimeout: TCP dial, NewClient, Login, then the
\* send on the buffered result channel; ok says whether the device let all three
\* succeed.  It runs on whether or not the caller still waits: after the
\* caller's timeout a successful login leaves an open client nobody holds
\* ("leaked").
dialWorker(s, ok) ==
    /\ client[s] \in {"dialing", "abandoned"}
    /\ DialSendProceeds(s)
    /\ client' = [client EXCEPT ![s] =
                     IF ~ok THEN "failed"
                     ELSE IF client[s] = "dialing" THEN "open" ELSE "leaked"]
    /\ UNCHANGED <<svcVars, httpVars, wsVars, monVars, connections, IsHealthy, mu, dialCount, lockVars, repoVars, chk, taskVars>>

\* (mutation of dialWithTimeoutResult) a failed dial returns its error with
\* no UpdateStatus call
dialFailureUnrecorded(t) ==
    /\ pc[t] = "cr_dial"
    /\ client[DialSid(t)] \in {"open", "failed"}
    /\ IF client[DialSid(t)] = "open"
       THEN /\ pc' = [pc EXCEPT ![t] = "cr_sysinfo"]
            /\ UNCHANGED <<err, mu>>
       ELSE /\ mu' = {}
            /\ pc' = [pc EXCEPT ![t] = "done"]
            /\ err' = [err EXCEPT ![t] = "dialfail"]
    /\ UNCHANGED <<svcVars, httpVars, wsVars, monVars, connections, client, IsHealthy, dialCount, repoVars,
                   op, rid, conn, pre, lockVars, chk>>

\* dialWithTimeout's select takes the worker's result
dialWithTimeoutResult(t) ==
    /\ pc[t] = "cr_dial"
    /\ client[DialSid(t)] \in {"open", "failed"}
    /\ IF client[DialSid(t)] = "open"
       THEN /\ pc' = [pc EXCEPT ![t] = "cr_sysinfo"]
            /\ UNCHANGED <<err, mu, repoStatus, repoVersion>>
       ELSE /\ repoStatus' = [repoStatus EXCEPT ![rid[t]] = "error"]
            /\ repoVersion' = [repoVersion EXCEPT ![rid[t]] = FALSE]
            /\ mu' = {}
            /\ pc' = [pc EXCEPT ![t] = "done"]
            /\ err' = [err EXCEPT ![t] = "dialfail"]
    /\ UNCHANGED <<svcVars, httpVars, wsVars, monVars, connections, client, IsHealthy, dialCount, repoActive,
                   op, rid, conn, pre, lockVars, chk>>

\* (mutation of dialWithTimeoutExpired) a plain receive from resultChan, with
\* no ctx.Done() case
dialBlocksOnWorker(t) ==
    /\ pc[t] = "cr_dial"
    /\ dialWithTimeoutResult(t)

\* dialWithTimeout's select takes ctx.Done(): the timeout error, whatever the
\* worker has done; ConnectRouter records "error" and returns
dialWithTimeoutExpired(t) ==
    /\ pc[t] = "cr_dial"
    /\ client' = [client EXCEPT ![DialSid(t)] =
                     CASE @ = "dialing" -> "abandoned"
                       [] @ = "open" -> "leaked"
                       [] OTHER -> @]
    /\ repoStatus' = [repoStatus EXCEPT ![rid[t]] = "error"]
    /\ repoVersion' = [repoVersion EXCEPT ![rid[t]] = FALSE]
    /\ mu' = {}
    /\ pc' = [pc EXCEPT ![t] = "done"]
    /\ err' = [err EXCEPT ![t] = "timeout"]
    /\ UNCHANGED <<svcVars, httpVars, wsVars, monVars, connections, IsHealthy, dialCount, repoActive,
                   op, rid, conn, pre, lockVars, chk>>

\* (mutation of ConnectRouterStore) the error of getSystemInfo is returned as
\* ConnectRouter's own: nothing is stored, status "error"
ConnectRouterStrict(t, info) ==
    /\ pc[t] = "cr_sysinfo"
    /\ repoVersion' = [repoVersion EXCEPT ![rid[t]] = info]
    /\ IF info
       THEN /\ connections' = [connections EXCEPT ![rid[t]] = DialSid(t)]
            /\ IsHealthy' = [IsHealthy EXCEPT ![DialSid(t)] = TRUE]
            /\ repoStatus' = [repoStatus EXCEPT ![rid[t]] = "online"]
            /\ pc' = [pc EXCEPT ![t] = ReturnPc(t, "")]
            /\ UNCHANGED err
       ELSE /\ repoStatus' = [repoStatus EXCEPT ![rid[t]] = "error"]
            /\ pc' = [pc EXCEPT ![t] = "done"]
            /\ err' = [err EXCEPT ![t] = "dialfail"]
            /\ UNCHANGED <<connections, IsHealthy>>
    /\ mu' = {}
    /\ UNCHANGED <<svcVars, httpVars, wsVars, monVars, client, dialCount, repoActive, op, rid, conn, pre, lockVars, chk>>

\* getSystemInfo has answered: info says whether it returned a SystemInfo (its
\* error is dropped, a nil result only leaves version/uptime NULL); status
\* "online"; the connection is stored; the deferred Unlock
ConnectRouterStore(t, info) ==
    /\ pc[t] = "cr_sysinfo"
    /\ repoVersion' = [repoVersion EXCEPT ![rid[t]] = info]
    /\ connections' = [connections EXCEPT ![rid[t]] = DialSid(t)]
    /\ IsHealthy' = [IsHealthy EXCEPT ![DialSid(t)] = TRUE]
    /\ repoStatus' = [repoStatus EXCEPT ![rid[t]] = "online"]
    /\ mu' = {}
    /\ pc' = [pc EXCEPT ![t] = ReturnPc(t, "")]
    /\ pre' = [u \in Tasks |-> IF rid[u] = rid[t] THEN pre[u] \ {"inactive"} ELSE pre[u]]
    /\ UNCHANGED <<svcVars, httpVars, wsVars, monVars, client, dialCount, repoActive, op, rid, conn, err, lockVars, chk>>

\* ---------------------------------------------------------------- DisconnectRouter
\* (mutation of DisconnectRouter) the session is closed and removed, the
\* registry is not told
DisconnectLeavesStatus(t) ==
    /\ pc[t] = "dr_start"
    /\ MuAvailable
    /\ IF connections[rid[t]] = NoConn
       THEN /\ err' = [err EXCEPT ![t] = "notconnected"]
            /\ UNCHANGED <<connections, client>>
       ELSE /\ client' = [client EXCEPT ![connections[rid[t]]] = "closed"]
            /\ connections' = [connections EXCEPT ![rid[t]] = NoConn]
            /\ UNCHANGED err
    /\ pc' = [pc EXCEPT ![t] = "done"]
    /\ UNCHANGED <<svcVars, httpVars, wsVars, monVars, IsHealthy, mu, dialCount, repoVars, op, rid, conn, pre, lockVars, chk>>

\* ms.mu.Lock(); a missing entry is the error 'router not connected'; else
\* Client.Close(), delete, status "offline"
DisconnectRouter(t) ==
    /\ pc[t] = "dr_start"
    /\ MuAvailable
    /\ LET d == rid[t]
           c == connections[d]
       IN IF c = NoConn
          THEN /\ err' = [err EXCEPT ![t] = "notconnected"]
               /\ UNCHANGED <<connections, client, repoStatus, repoVersion>>
          ELSE /\ client' = [client EXCEPT ![c] = "closed"]
               /\ connections' = [connections EXCEPT ![d] = NoConn]
               /\ repoStatus' = [repoStatus EXCEPT ![d] = "offline"]
               /\ repoVersion' = [repoVersion EXCEPT ![d] = FALSE]
               /\ UNCHANGED err
    /\ pc' = [pc EXCEPT ![t] = "done"]
    /\ UNCHANGED <<svcVars, httpVars, wsVars, monVars, IsHealthy, mu, dialCount, repoActive, op, rid, conn, pre, lockVars, chk>>

\* ---------------------------------------------------------------- GetConnection
\* the first read of the map under RLock; a missing entry calls ConnectRouter
\* (mutation of GetConnection) the read lock of the first map read is released
\* by a deferred RUnlock, so it is still held while the caller goes on
GetConnectionDeferUnlock(t) ==
    /\ pc[t] = "gc_start"
    /\ MuAvailable
    /\ conn' = [conn EXCEPT ![t] = connections[rid[t]]]
    /\ mu' = IF connections[rid[t]] = NoConn THEN mu ELSE {t}
    /\ pc' = [pc EXCEPT ![t] = IF connections[rid[t]] = NoConn THEN "cr_start" ELSE "gc_health"]
    /\ UNCHANGED <<svcVars, httpVars, wsVars, monVars, op, rid, err, pre, connections, client,
                   IsHealthy, dialCount, lockVars, repoVars, chk>>

GetConnection(t) ==
    /\ pc[t] = "gc_start"
    /\ MuAvailable
    /\ conn' = [conn EXCEPT ![t] = connections[rid[t]]]
    /\ pc' = [pc EXCEPT ![t] = IF connections[rid[t]] = NoConn THEN "cr_start" ELSE "gc_health"]
    /\ UNCHANGED <<svcVars, httpVars, wsVars, monVars, op, rid, err, pre, mgrVars, lockVars, repoVars, chk>>

\* ConnectRouter returned nil: the map is read again under RLock
GetConnectionReread(t) ==
    /\ pc[t] = "gc_read2"
    /\ MuAvailable
    /\ conn' = [conn EXCEPT ![t] = connections[rid[t]]]
    /\ pc' = [pc EXCEPT ![t] = "gc_health"]
    /\ UNCHANGED <<svcVars, httpVars, wsVars, monVars, op, rid, err, pre, mgrVars, lockVars, repoVars, chk>>

\* if !conn.IsHealthy: a nil conn panics, an unhealthy one is an error
GetConnectionReturn(t) ==
    /\ pc[t] = "gc_health"
    /\ IF conn[t] = NoConn
       THEN /\ pc' = [pc EXCEPT ![t] = "done"]
            /\ err' = [err EXCEPT ![t] = "nilpanic"]
       ELSE IF ~IsHealthy[conn[t]]
       THEN /\ pc' = [pc EXCEPT ![t] = "done"]
            /\ err' = [err EXCEPT ![t] = "unhealthy"]
       ELSE /\ pc' = [pc EXCEPT ![t] = AfterGetConnection(op[t])]
            /\ UNCHANGED err
    /\ UNCHANGED <<svcVars, httpVars, wsVars, monVars, op, rid, conn, pre, mgrVars, lockVars, repoVars, chk>>

\* ---------------------------------------------------------------- commands
\* t's conn.mu.RLock() (a read command) or conn.mu.Lock() can be granted
Grantable(t) ==
    /\ connMuW[conn[t]] = "free"
    /\ op[t] # "ReadCmd" => connMuR[conn[t]] = {}

\* t is one of the goroutines blocked on conn.mu
Blocked(t) == \E i \in 1..Len(lockq[conn[t]]) : lockq[conn[t]][i] = t

\* conn.mu.Lock()/RLock() finds the lock taken: the goroutine blocks
LockWait(t) ==
    /\ pc[t] = "cmd_lock"
    /\ ~Blocked(t)
    /\ ~Grantable(t)
    /\ lockq' = [lockq EXCEPT ![conn[t]] = Append(@, t)]
    /\ UNCHANGED <<svcVars, httpVars, wsVars, monVars, connMuW, connMuR, mgrVars, repoVars, chk, taskVars>>

\* conn.mu.RLock() (GetInterfaces, GetAddresses, GetQueues) or conn.mu.Lock()
\* (the mutating commands, GetInterfaceTrafficOnce), then the Run call starts.
\* sync.RWMutex gives the lock to whoever takes it first once it is free: a
\* goroutine that was blocked and is woken competes with those that arrive.
RunBegin(t) ==
    /\ pc[t] = "cmd_lock"
    /\ connMuW[conn[t]] = "free"
    /\ IF op[t] = "ReadCmd"
       THEN /\ connMuR' = [connMuR EXCEPT ![conn[t]] = @ \cup {t}]
            /\ UNCHANGED connMuW
       ELSE /\ connMuR[conn[t]] = {}
            /\ connMuW' = [connMuW EXCEPT ![conn[t]] = "cmd"]
            /\ UNCHANGED connMuR
    /\ lockq' = [lockq EXCEPT ![conn[t]] = SelectSeq(@, LAMBDA u : u # t)]
    /\ pc' = [pc EXCEPT ![t] = "cmd_run"]
    /\ UNCHANGED <<svcVars, httpVars, wsVars, monVars, op, rid, conn, err, pre, mgrVars, repoVars, chk>>

\* Run returns; the deferred unlock
RunEnd(t) ==
    /\ pc[t] = "cmd_run"
    /\ op[t] # "EnableInterface"
    /\ \E ok \in Outcomes(conn[t]) :
          err' = [err EXCEPT ![t] = IF ok THEN "" ELSE "cmderr"]
    /\ IF op[t] = "ReadCmd"
       THEN /\ connMuR' = [connMuR EXCEPT ![conn[t]] = @ \ {t}]
            /\ UNCHANGED connMuW
       ELSE /\ connMuW' = [connMuW EXCEPT ![conn[t]] = "free"]
            /\ UNCHANGED connMuR
    /\ pc' = [pc EXCEPT ![t] = "done"]
    /\ UNCHANGED <<svcVars, httpVars, wsVars, monVars, lockq, op, rid, conn, pre, mgrVars, repoVars, chk>>

\* ---------------------------------------------------------------- health sweep
\* one tick of healthCheckRoutine: snapshot the map under RLock and start
\* checkConnection for every connection in it (one goroutine per connection
\* is kept in flight)
healthCheckRoutine ==
    /\ MuAvailable
    /\ \E d \in Routers : connections[d] # NoConn /\ chk[connections[d]] = "idle"
    /\ chk' = [s \in Sessions |->
                 IF connections[RouterOf(s)] = s /\ chk[s] = "idle"
                 THEN "waiting" ELSE chk[s]]
    /\ UNCHANGED <<svcVars, httpVars, wsVars, monVars, mgrVars, lockVars, repoVars, taskVars>>

\* checkConnection: conn.mu.Lock(), then the liveness command starts
checkConnectionBegin(s) ==
    /\ chk[s] = "waiting"
    /\ connMuW[s] = "free"
    /\ connMuR[s] = {}
    /\ connMuW' = [connMuW EXCEPT ![s] = "check"]
    /\ chk' = [chk EXCEPT ![s] = "running"]
    /\ UNCHANGED <<svcVars, httpVars, wsVars, monVars, connMuR, lockq, mgrVars, repoVars, taskVars>>

\* (mutation of checkConnection) a failed liveness command marks the session
\* and the registry, and no reconnect is started
checkConnectionNoReconnect(s) ==
    /\ chk[s] = "running"
    /\ \E ok \in Outcomes(s) :
          IF ok
          THEN /\ IsHealthy' = [IsHealthy EXCEPT ![s] = TRUE]
               /\ repoStatus' = [repoStatus EXCEPT ![RouterOf(s)] = "online"]
               /\ \E info \in BOOLEAN :
                     repoVersion' = [repoVersion EXCEPT ![RouterOf(s)] = info]
               /\ pre' = [t \in Tasks |->
                             IF rid[t] = RouterOf(s) THEN pre[t] \ {"inactive"} ELSE pre[t]]
          ELSE /\ IsHealthy' = [IsHealthy EXCEPT ![s] = FALSE]
               /\ repoStatus' = [repoStatus EXCEPT ![RouterOf(s)] = "error"]
               /\ repoVersion' = [repoVersion EXCEPT ![RouterOf(s)] = FALSE]
               /\ UNCHANGED pre
    /\ connMuW' = [connMuW EXCEPT ![s] = "free"]
    /\ chk' = [chk EXCEPT ![s] = "idle"]
    /\ UNCHANGED <<svcVars, httpVars, wsVars, monVars, connections, client, mu, dialCount, connMuR,
                   lockq, repoActive, pc, op, rid, conn, err>>

\* the liveness command returns.  Failure: IsHealthy = false, status "error",
\* go ms.ConnectRouter(conn.RouterID).  Success: IsHealthy = true, getSystemInfo
\* (best effort), status "online".
checkConnection(s) ==
    /\ chk[s] = "running"
    /\ \E ok \in Outcomes(s) :
          IF ok
          THEN /\ IsHealthy' = [IsHealthy EXCEPT ![s] = TRUE]
               /\ repoStatus' = [repoStatus EXCEPT ![RouterOf(s)] = "online"]
               /\ \E info \in BOOLEAN :
                     repoVersion' = [repoVersion EXCEPT ![RouterOf(s)] = info]
               /\ pre' = [t \in Tasks |->
                             IF rid[t] = RouterOf(s) THEN pre[t] \ {"inactive"} ELSE pre[t]]
               /\ UNCHANGED <<pc, op, rid>>
          ELSE /\ IsHealthy' = [IsHealthy EXCEPT ![s] = FALSE]
               /\ repoStatus' = [repoStatus EXCEPT ![RouterOf(s)] = "error"]
               /\ repoVersion' = [repoVersion EXCEPT ![RouterOf(s)] = FALSE]
               /\ \E t \in Tasks :
                     /\ pc[t] = "idle"
                     /\ pc' = [pc EXCEPT ![t] = "cr_start"]
                     /\ op' = [op EXCEPT ![t] = "Reconnect"]
                     /\ rid' = [rid EXCEPT ![t] = RouterOf(s)]
               /\ UNCHANGED pre
    /\ connMuW' = [connMuW EXCEPT ![s] = "free"]
    /\ chk' = [chk EXCEPT ![s] = "idle"]
    /\ UNCHANGED <<svcVars, httpVars, wsVars, monVars, connections, client, mu, dialCount, connMuR, lockq, repoActive, conn, err>>

\* ---------------------------------------------------------------- traffic monitor
\* a streaming handler starts MonitorInterfaceTrafficWithContext(ctx of c, d, i, callback)
CallMonitor(t, d, i, c) ==
    /\ pc[t] = "idle"
    /\ pc' = [pc EXCEPT ![t] = "gc_start"]
    /\ op' = [op EXCEPT ![t] = "Monitor"]
    /\ rid' = [rid EXCEPT ![t] = d]
    /\ marg' = [marg EXCEPT ![t] = <<i, c>>]
    /\ UNCHANGED <<svcVars, httpVars, wsVars, conn, err, pre, subs, ctxDone, mgrVars, lockVars, repoVars, chk>>

\* the subscription the next Listen call creates
NextSub == Cardinality({k \in Subs : subs[k].state # "none"}) + 1

\* subscriptions open on the device for router d, interface i
OpenSubs(d, i) == {k \in Subs : /\ subs[k].state = "open"
                                /\ RouterOf(subs[k].sess) = d
                                /\ subs[k].iface = i}

\* (mutation of CtxDone) one context shared by every subscription of the same
\* router and interface
CtxDoneShared(k) ==
    \E j \in Subs : /\ subs[j].state # "none"
                    /\ subs[j].sess = subs[k].sess
                    /\ subs[j].iface = subs[k].iface
                    /\ ctxDone[subs[j].ctx]

\* case <-ctx.Done(): the context the dispatch goroutine of k was given
CtxDone(k) == ctxDone[subs[k].ctx]

\* (mutation of StreamEnded) closing the session's client leaves the channels
\* of its subscriptions open
StreamEndedByDeviceOnly(k) == subs[k].closed

\* the sentences of k's channel are over: the device ended the stream or the
\* session's client was closed
StreamEnded(k) == subs[k].closed \/ client[subs[k].sess] = "closed"

\* the dispatch goroutine returns and its deferred listen.Cancel() runs: the
\* subscription is cancelled and its channel is gone; drop says that a sample
\* taken from the channel was not passed to the callback
Cancelled(sub, drop) == [sub EXCEPT !.gpc = "stopped", !.state = "cancelled",
                                    !.chan = <<>>, !.dropped = drop]

\* (mutation of Listen) Listen is called under conn.mu.Lock()
ListenUnderLock(t) ==
    /\ pc[t] = "mon_listen"
    /\ connMuW[conn[t]] = "free"
    /\ connMuR[conn[t]] = {}
    /\ IF client[conn[t]] # "open"
       THEN /\ err' = [err EXCEPT ![t] = "listenfail"]
            /\ UNCHANGED subs
       ELSE /\ NextSub \in Subs
            /\ subs' = [subs EXCEPT ![NextSub] =
                          [NoSub EXCEPT !.state = "open", !.sess = conn[t],
                                        !.iface = marg[t][1], !.ctx = marg[t][2],
                                        !.gpc = "select"]]
            /\ UNCHANGED err
    /\ pc' = [pc EXCEPT ![t] = "done"]
    /\ UNCHANGED <<svcVars, httpVars, wsVars, op, rid, conn, pre, marg, ctxDone, mgrVars, lockVars, repoVars, chk>>

\* conn.Client.Listen, without conn.mu; on success the dispatch goroutine is
\* started and nil is returned
Listen(t) ==
    /\ pc[t] = "mon_listen"
    /\ IF client[conn[t]] # "open"
       THEN /\ err' = [err EXCEPT ![t] = "listenfail"]
            /\ UNCHANGED subs
       ELSE /\ NextSub \in Subs
            /\ subs' = [subs EXCEPT ![NextSub] =
                          [state |-> "open", sess |-> conn[t], iface |-> marg[t][1],
                           ctx |-> marg[t][2], chan |-> <<>>, closed |-> FALSE,
                           gpc |-> "select", delivered |-> 0, last |-> 0,
                           dropped |-> FALSE, skipped |-> FALSE]]
            /\ UNCHANGED err
    /\ pc' = [pc EXCEPT ![t] = "done"]
    /\ UNCHANGED <<svcVars, httpVars, wsVars, op, rid, conn, pre, marg, ctxDone, mgrVars, lockVars, repoVars, chk>>

\* (mutation of dispatchCtxDone) the dispatch loop's select has no ctx.Done()
\* case: the context is looked at only once a sample has been received
dispatchWithoutCtxCase(k) ==
    /\ subs[k].gpc = "select"
    /\ FALSE
    /\ UNCHANGED vars

\* the dispatch goroutine's select takes ctx.Done(): return, and the deferred
\* listen.Cancel()
dispatchCtxDone(k) ==
    /\ subs[k].gpc = "select"
    /\ CtxDone(k)
    /\ subs' = [subs EXCEPT ![k] = Cancelled(@, FALSE)]
    /\ UNCHANGED <<svcVars, httpVars, wsVars, marg, ctxDone, mgrVars, lockVars, repoVars, chk, taskVars>>

\* where the dispatch goroutine goes when it calls callback(stats): into the
\* callback of a MonitorTrafficWS handler, which takes wsMutex, or, for any
\* other consumer, through a callback that returns at once
CallbackPc(k) == IF hpc[subs[k].ctx] # "none" THEN "cb_lock" ELSE "select"

\* (mutation of Received) the newest sentence of the channel is taken first
ReceivedNewest(q) == Len(q)

\* sentence, more := <-listen.Chan(): a receive takes the oldest sentence
Received(q) == 1

\* q without its i-th sentence
Without(q, i) == SubSeq(q, 1, i - 1) \o SubSeq(q, i + 1, Len(q))

\* (mutation of dispatchSentence) every sentence taken from the channel is
\* turned into a TrafficStats and passed to the callback, whatever its word
dispatchForwardsAll(k) ==
    /\ subs[k].gpc = "select"
    /\ subs[k].chan # <<>>
    /\ LET i == Received(subs[k].chan)
           m == subs[k].chan[i]
       IN IF CtxDone(k)
          THEN subs' = [subs EXCEPT ![k] = Cancelled(@, TRUE)]
          ELSE subs' = [subs EXCEPT ![k].chan = Without(@, i),
                                    ![k].delivered = @ + 1,
                                    ![k].last = IF m[1] = "!re" THEN m[2] ELSE @,
                                    ![k].gpc = CallbackPc(k)]
    /\ UNCHANGED <<svcVars, httpVars, wsVars, marg, ctxDone, mgrVars, lockVars, repoVars, chk, taskVars>>

\* the select takes a sentence <<word, number>>: only "!re" becomes a
\* TrafficStats; the context is checked once more and the callback is called
\* (delivered, last: the number of the sample it was given); a sample taken
\* from the channel and not passed to the callback is recorded in dropped, a
\* sentence of any other word is logged and the loop goes on (skipped)
dispatchSentence(k) ==
    /\ subs[k].gpc = "select"
    /\ subs[k].chan # <<>>
    /\ LET i == Received(subs[k].chan)
           m == subs[k].chan[i]
       IN IF m[1] # "!re"
          THEN subs' = [subs EXCEPT ![k].chan = Without(@, i), ![k].skipped = TRUE]
          ELSE IF CtxDone(k)
          THEN subs' = [subs EXCEPT ![k] = Cancelled(@, TRUE)]
          ELSE subs' = [subs EXCEPT ![k].chan = Without(@, i),
                                    ![k].delivered = @ + 1,
                                    ![k].last = m[2],
                                    ![k].gpc = CallbackPc(k)]
    /\ UNCHANGED <<svcVars, httpVars, wsVars, marg, ctxDone, mgrVars, lockVars, repoVars, chk, taskVars>>

\* the select finds the channel closed: return, and the deferred listen.Cancel()
dispatchClosed(k) ==
    /\ subs[k].gpc = "select"
    /\ subs[k].chan = <<>>
    /\ StreamEnded(k)
    /\ subs' = [subs EXCEPT ![k] = Cancelled(@, FALSE)]
    /\ UNCHANGED <<svcVars, httpVars, wsVars, marg, ctxDone, mgrVars, lockVars, repoVars, chk, taskVars>>

\* the samples ("!re" sentences) waiting in channel q
NumRe(q) == Cardinality({i \in 1..Len(q) : q[i][1] = "!re"})

\* the device sends a sentence on an open subscription; its samples are
\* numbered in the order it sends them
DeviceEmit(k, w) ==
    /\ subs[k].state = "open"
    /\ ~StreamEnded(k)
    /\ Len(subs[k].chan) < MaxChan
    /\ subs[k].delivered + NumRe(subs[k].chan) < MaxEmit
    /\ subs' = [subs EXCEPT ![k].chan =
                    Append(@, <<w, IF w = "!re"
                                   THEN subs[k].delivered + NumRe(subs[k].chan) + 1
                                   ELSE 0>>)]
    /\ UNCHANGED <<svcVars, httpVars, wsVars, marg, ctxDone, mgrVars, lockVars, repoVars, chk, taskVars>>

\* the device sends its next sentence only after the dispatch goroutine has
\* taken the one before (a device that reports once per interval)
DevicePaced(k, w) ==
    /\ subs[k].chan = <<>>
    /\ DeviceEmit(k, w)

\* the device ends the stream: the channel is closed
DeviceEnd(k) ==
    /\ subs[k].state = "open"
    /\ ~subs[k].closed
    /\ subs' = [subs EXCEPT ![k].closed = TRUE]
    /\ UNCHANGED <<svcVars, httpVars, wsVars, marg, ctxDone, mgrVars, lockVars, repoVars, chk, taskVars>>

\* a streaming client's context is cancelled (cancel() in MonitorTrafficWS)
CancelCtx(c) ==
    /\ ~ctxDone[c]
    /\ ctxDone' = [ctxDone EXCEPT ![c] = TRUE]
    /\ UNCHANGED <<svcVars, httpVars, wsVars, marg, subs, mgrVars, lockVars, repoVars, chk, taskVars>>

\* ---------------------------------------------------------------- MonitorTrafficWS
\* (mutation of WsMutexFree) writers do not take wsMutex
WsUnguarded(c) == TRUE

\* wsMutex.Lock() of client c's handler can be taken
WsMutexFree(c) == wsMutex[c] = NoHolder

\* the per-interface goroutines of c's handler that have not returned
Pending(c) == {t \in Tasks : op[t] = "Monitor" /\ marg[t][2] = c /\ pc[t] # "idle"}

\* a streaming request of client c for the interfaces of router d that T's
\* goroutines will monitor: the context, the read goroutine, one goroutine
\* per interface, each calling MonitorInterfaceTrafficWithContext
WSOpen(c, d, i, T) ==
    /\ hpc[c] = "none"
    /\ ~ctxDone[c]
    /\ T # {}
    /\ \A t \in T : pc[t] = "idle"
    /\ hpc' = [hpc EXCEPT ![c] = "sleep"]
    /\ nif' = [nif EXCEPT ![c] = Cardinality(T)]
    /\ rpc' = [rpc EXCEPT ![c] = "read"]
    /\ wsOpen' = [wsOpen EXCEPT ![c] = TRUE]
    /\ pc' = [t \in Tasks |-> IF t \in T THEN "gc_start" ELSE pc[t]]
    /\ op' = [t \in Tasks |-> IF t \in T THEN "Monitor" ELSE op[t]]
    /\ rid' = [t \in Tasks |-> IF t \in T THEN d ELSE rid[t]]
    /\ marg' = [t \in Tasks |-> IF t \in T THEN <<i, c>> ELSE marg[t]]
    /\ UNCHANGED <<svcVars, httpVars, startErrors, wsMutex, doneCh, events, conn, err, pre, subs, ctxDone,
                   mgrVars, lockVars, repoVars, chk>>

\* a per-interface goroutine ends: a failed monitor call is appended to
\* startErrors
WSGoroutineEnd(t) ==
    /\ pc[t] = "done"
    /\ op[t] = "Monitor"
    /\ hpc[marg[t][2]] # "none"
    /\ startErrors' = [startErrors EXCEPT ![marg[t][2]] = IF err[t] # "" THEN @ + 1 ELSE @]
    /\ pc' = [pc EXCEPT ![t] = "idle"]
    /\ op' = [op EXCEPT ![t] = ""]
    /\ rid' = [rid EXCEPT ![t] = 0]
    /\ conn' = [conn EXCEPT ![t] = NoConn]
    /\ err' = [err EXCEPT ![t] = ""]
    /\ marg' = [marg EXCEPT ![t] = NoArg]
    /\ UNCHANGED <<svcVars, httpVars, hpc, nif, rpc, wsMutex, wsOpen, doneCh, events, pre, subs, ctxDone,
                   mgrVars, lockVars, repoVars, chk>>

\* the 500 ms sleep is over: wsMutex.Lock(); with start errors the error event
\* naming them is written (if wsOpen)
WSStatus(c) ==
    /\ hpc[c] = "sleep"
    /\ WsMutexFree(c)
    /\ wsMutex' = [wsMutex EXCEPT ![c] = <<"main", 0>>]
    /\ IF startErrors[c] > 0
       THEN /\ hpc' = [hpc EXCEPT ![c] = "status_err"]
            /\ events' = [events EXCEPT ![c].error = IF wsOpen[c] THEN startErrors[c] ELSE @]
       ELSE /\ hpc' = [hpc EXCEPT ![c] = "status_ok"]
            /\ UNCHANGED events
    /\ UNCHANGED <<svcVars, httpVars, nif, startErrors, rpc, wsOpen, doneCh, monVars,
                   mgrVars, lockVars, repoVars, chk, taskVars>>

\* after the error event: if every interface failed, Unlock and return (the
\* deferred cancel() and conn.Close()); else on to the connected event
WSStatusErr(c) ==
    /\ hpc[c] = "status_err"
    /\ IF startErrors[c] = nif[c]
       THEN /\ hpc' = [hpc EXCEPT ![c] = "exited"]
            /\ wsMutex' = [wsMutex EXCEPT ![c] = NoHolder]
            /\ ctxDone' = [ctxDone EXCEPT ![c] = TRUE]
       ELSE /\ hpc' = [hpc EXCEPT ![c] = "status_ok"]
            /\ UNCHANGED <<wsMutex, ctxDone>>
    /\ UNCHANGED <<svcVars, httpVars, nif, startErrors, rpc, wsOpen, doneCh, events, marg, subs,
                   mgrVars, lockVars, repoVars, chk, taskVars>>

\* the connected event (if an interface started and wsOpen), Unlock, then
\* the handler waits for done
WSStatusOk(c) ==
    /\ hpc[c] = "status_ok"
    /\ events' = [events EXCEPT ![c].connected =
                      nif[c] - startErrors[c] > 0 /\ wsOpen[c]]
    /\ wsMutex' = [wsMutex EXCEPT ![c] = NoHolder]
    /\ hpc' = [hpc EXCEPT ![c] = "wait"]
    /\ UNCHANGED <<svcVars, httpVars, nif, startErrors, rpc, wsOpen, doneCh, monVars,
                   mgrVars, lockVars, repoVars, chk, taskVars>>

\* <-done; wsOpen = false under wsMutex; return (the deferred cancel() and
\* conn.Close())
WSDone(c) ==
    /\ hpc[c] = "wait"
    /\ doneCh[c] > 0
    /\ WsMutexFree(c)
    /\ doneCh' = [doneCh EXCEPT ![c] = @ - 1]
    /\ wsOpen' = [wsOpen EXCEPT ![c] = FALSE]
    /\ ctxDone' = [ctxDone EXCEPT ![c] = TRUE]
    /\ hpc' = [hpc EXCEPT ![c] = "exited"]
    /\ UNCHANGED <<svcVars, httpVars, nif, startErrors, rpc, wsMutex, events, marg, subs,
                   mgrVars, lockVars, repoVars, chk, taskVars>>

\* the read goroutine reads a ping from the client
WSPing(c) ==
    /\ rpc[c] = "read"
    /\ hpc[c] # "exited"
    /\ rpc' = [rpc EXCEPT ![c] = "pong_lock"]
    /\ UNCHANGED <<svcVars, httpVars, hpc, nif, startErrors, wsMutex, wsOpen, doneCh, events, monVars,
                   mgrVars, lockVars, repoVars, chk, taskVars>>

\* wsMutex.Lock(); the pong is written if wsOpen
WSPongBegin(c) ==
    /\ rpc[c] = "pong_lock"
    /\ WsMutexFree(c)
    /\ wsMutex' = [wsMutex EXCEPT ![c] = <<"reader", 0>>]
    /\ rpc' = [rpc EXCEPT ![c] = "pong_write"]
    /\ UNCHANGED <<svcVars, httpVars, hpc, nif, startErrors, wsOpen, doneCh, events, monVars,
                   mgrVars, lockVars, repoVars, chk, taskVars>>

\* the pong is out; wsMutex.Unlock()
WSPongEnd(c) ==
    /\ rpc[c] = "pong_write"
    /\ wsMutex' = [wsMutex EXCEPT ![c] = NoHolder]
    /\ rpc' = [rpc EXCEPT ![c] = "read"]
    /\ UNCHANGED <<svcVars, httpVars, hpc, nif, startErrors, wsOpen, doneCh, events, monVars,
                   mgrVars, lockVars, repoVars, chk, taskVars>>

\* conn.ReadMessage() fails (the client is gone, or the handler has closed the
\* socket): the deferred cancel() and done <- true
WSReadError(c) ==
    /\ rpc[c] = "read"
    /\ rpc' = [rpc EXCEPT ![c] = "stopped"]
    /\ ctxDone' = [ctxDone EXCEPT ![c] = TRUE]
    /\ doneCh' = [doneCh EXCEPT ![c] = 1]
    /\ UNCHANGED <<svcVars, httpVars, hpc, nif, startErrors, wsMutex, wsOpen, events, marg, subs,
                   mgrVars, lockVars, repoVars, chk, taskVars>>

\* (mutation of callbackLock) the callback writes its traffic_update without
\* looking at wsOpen
callbackIgnoresWsOpen(k) ==
    /\ subs[k].gpc = "cb_lock"
    /\ WsMutexFree(subs[k].ctx)
    /\ wsMutex' = [wsMutex EXCEPT ![subs[k].ctx] = <<"cb", k>>]
    /\ subs' = [subs EXCEPT ![k].gpc = "cb_write"]
    /\ UNCHANGED <<svcVars, httpVars, hpc, nif, startErrors, rpc, wsOpen, doneCh, events, marg, ctxDone,
                   mgrVars, lockVars, repoVars, chk, taskVars>>

\* the handler's callback, called by dispatch goroutine k: wsMutex.Lock(); with
\* wsOpen the traffic_update is written, else Unlock and return
callbackLock(k) ==
    /\ subs[k].gpc = "cb_lock"
    /\ WsMutexFree(subs[k].ctx)
    /\ IF wsOpen[subs[k].ctx]
       THEN /\ wsMutex' = [wsMutex EXCEPT ![subs[k].ctx] = <<"cb", k>>]
            /\ subs' = [subs EXCEPT ![k].gpc = "cb_write"]
       ELSE /\ subs' = [subs EXCEPT ![k].gpc = "select"]
            /\ UNCHANGED wsMutex
    /\ UNCHANGED <<svcVars, httpVars, hpc, nif, startErrors, rpc, wsOpen, doneCh, events, marg, ctxDone,
                   mgrVars, lockVars, repoVars, chk, taskVars>>

\* conn.WriteJSON returns: on an error wsOpen = false and cancel(); Unlock; the
\* callback returns to the dispatch loop
callbackWrite(k, ok) ==
    /\ subs[k].gpc = "cb_write"
    /\ wsOpen' = [wsOpen EXCEPT ![subs[k].ctx] = ok]
    /\ ctxDone' = [ctxDone EXCEPT ![subs[k].ctx] = @ \/ ~ok]
    /\ wsMutex' = [wsMutex EXCEPT ![subs[k].ctx] = NoHolder]
    /\ subs' = [subs EXCEPT ![k].gpc = "select"]
    /\ UNCHANGED <<svcVars, httpVars, hpc, nif, startErrors, rpc, doneCh, events, marg,
                   mgrVars, lockVars, repoVars, chk, taskVars>>

\* ---------------------------------------------------------------- HTTP handlers
\* values of the router_id query parameter
RouterIdParams == {"", "abc", "0", "1"}

\* values of a name, id, interface or address query parameter
ArgValues == {"", "x"}

\* the handlers: the service call each makes and how many parameters besides
\* router_id it requires (GetInterfaces stands for the handlers of the read
\* commands, EnableInterface for those with one required parameter)
Handlers ==
    [ConnectRouterHandler    |-> [op |-> "Connect",    params |-> 0],
     DisconnectRouterHandler |-> [op |-> "Disconnect", params |-> 0],
     GetInterfaces           |-> [op |-> "ReadCmd",    params |-> 0],
     EnableInterface         |-> [op |-> "EnableInterface", params |-> 1],
     GetTrafficOnce          |-> [op |-> "WriteCmd",   params |-> 1],
     AddAddress              |-> [op |-> "WriteCmd",   params |-> 2]]

\* the parameter lists a request to handler h can carry
ArgsOf(h) == [1..Handlers[h].params -> ArgValues]

\* strconv.Atoi of a router_id value
Atoi(p) == CASE p = "0" -> [n |-> 0, ok |-> TRUE]
             [] p = "1" -> [n |-> 1, ok |-> TRUE]
             [] OTHER   -> [n |-> 0, ok |-> FALSE]

\* the handlers' check of router_id: not (err != nil || routerID == 0)
ValidRouterId(p) == Atoi(p).ok /\ Atoi(p).n # 0

\* the handlers' check of the other required parameters: none is ""
ValidArgs(a) == \A i \in DOMAIN a : a[i] # ""

\* the 400 response
BadRequest == [code |-> "400", success |-> FALSE, error |-> "parameter"]

\* the 408 response of ConnectRouterHandler
RequestTimeout == [code |-> "408", success |-> FALSE, error |-> "timeout"]

\* the handler of t's request has not answered yet
Waiting(t) == resp[t].code = "waiting"

\* (mutation of Reply) the error of the service call is not looked at
ReplyAlwaysOk(e) == [code |-> "200", success |-> TRUE, error |-> ""]

\* the response to a service call that returned e: 500 with err.Error(), or
\* the success envelope
Reply(e) == IF e # "" THEN [code |-> "500", success |-> FALSE, error |-> e]
            ELSE [code |-> "200", success |-> TRUE, error |-> ""]

\* a request for handler h arrives with router_id p and parameters a
HttpRequest(t, h, p, a) ==
    /\ pc[t] = "idle"
    /\ ~Waiting(t)
    /\ pc' = [pc EXCEPT ![t] = "http"]
    /\ req' = [req EXCEPT ![t] = [h |-> h, p |-> p, a |-> a]]
    /\ resp' = [resp EXCEPT ![t] = [code |-> "waiting", success |-> FALSE, error |-> ""]]
    /\ resultChan' = [resultChan EXCEPT ![t] = 0]
    /\ UNCHANGED <<svcVars, wsreq, wsVars, monVars, op, rid, conn, err, pre, mgrVars, lockVars, repoVars, chk>>

\* the handler validates router_id, then its other parameters: 400 and return,
\* or the service call (for ConnectRouterHandler: in a goroutine of its own)
HttpValidate(t) ==
    /\ pc[t] = "http"
    /\ IF ValidRouterId(req[t].p) /\ ValidArgs(req[t].a)
       THEN /\ pc' = [pc EXCEPT ![t] = Entry(Handlers[req[t].h].op)]
            /\ op' = [op EXCEPT ![t] = Handlers[req[t].h].op]
            /\ rid' = [rid EXCEPT ![t] = Atoi(req[t].p).n]
            /\ pre' = [pre EXCEPT ![t] =
                          (IF ~repoActive[Atoi(req[t].p).n] /\ ~HealthyInMap(Atoi(req[t].p).n)
                           THEN {"inactive"} ELSE {})
                          \cup (IF StaleInMap(Atoi(req[t].p).n) THEN {"stale"} ELSE {})]
            /\ UNCHANGED resp
       ELSE /\ pc' = [pc EXCEPT ![t] = "idle"]
            /\ resp' = [resp EXCEPT ![t] = BadRequest]
            /\ UNCHANGED <<op, rid, pre>>
    /\ req' = [req EXCEPT ![t] = NoReq]
    /\ UNCHANGED <<svcVars, wsreq, wsVars, monVars, resultChan, conn, err, mgrVars, lockVars, repoVars, chk>>

\* the goroutine of t is over
Ended(t) ==
    /\ pc' = [pc EXCEPT ![t] = "idle"]
    /\ op' = [op EXCEPT ![t] = ""]
    /\ rid' = [rid EXCEPT ![t] = 0]
    /\ conn' = [conn EXCEPT ![t] = NoConn]
    /\ err' = [err EXCEPT ![t] = ""]
    /\ pre' = [pre EXCEPT ![t] = {}]

\* the service call of a handler returns and the handler answers; the nil
\* dereference in GetConnection panics and the server drops the request
HandlerReturn(t) ==
    /\ pc[t] = "done"
    /\ op[t] \in {"Disconnect", "ReadCmd", "WriteCmd", "EnableInterface"}
    /\ Waiting(t)
    /\ resp' = [resp EXCEPT ![t] =
                   IF err[t] = "nilpanic"
                   THEN [code |-> "aborted", success |-> FALSE, error |-> ""]
                   ELSE Reply(err[t])]
    /\ Ended(t)
    /\ UNCHANGED <<svcVars, wsreq, wsVars, monVars, req, resultChan, mgrVars, lockVars, repoVars, chk>>

\* (mutation of SendProceeds) resultChan is made without a buffer
SendNeedsReceiver(t) == Waiting(t)

\* resultChan <- err can proceed: the handler is in its select, or the buffer
\* of one is empty
SendProceeds(t) == Waiting(t) \/ resultChan[t] = 0

\* ConnectRouterHandler's goroutine sends what ConnectRouter returned on
\* resultChan and ends; a handler still in its select takes it and answers
ConnectRouterHandlerResult(t) ==
    /\ pc[t] = "done"
    /\ op[t] = "Connect"
    /\ resp[t] # NoResp
    /\ SendProceeds(t)
    /\ IF Waiting(t)
       THEN /\ resp' = [resp EXCEPT ![t] = Reply(err[t])]
            /\ UNCHANGED resultChan
       ELSE /\ resultChan' = [resultChan EXCEPT ![t] = @ + 1]
            /\ UNCHANGED resp
    /\ Ended(t)
    /\ UNCHANGED <<svcVars, wsreq, wsVars, monVars, req, mgrVars, lockVars, repoVars, chk>>

\* ConnectRouterHandler's select takes ctx.Done(): 30 s have passed with
\* nothing on resultChan; 408, and the handler returns
ConnectRouterHandlerTimeout(t) ==
    /\ Waiting(t)
    /\ op[t] = "Connect"
    /\ resp' = [resp EXCEPT ![t] = RequestTimeout]
    /\ UNCHANGED <<svcVars, wsreq, wsVars, monVars, req, resultChan, mgrVars, lockVars, repoVars, chk, taskVars>>

\* ---------------------------------------------------------------- streaming requests
\* the characters of an interface or interfaces query value: a letter of a
\* name, the separator, a blank
Chars == {"a", ",", " "}

\* the values of the interface and interfaces query parameters
QueryStrings == UNION {[1..n -> Chars] : n \in 0..MaxQuery}

\* the first "," of q is at position Comma(q)
Comma(q) == CHOOSE i \in 1..Len(q) : q[i] = "," /\ \A j \in 1..(i - 1) : q[j] # ","

\* strings.Split(q, ",")
RECURSIVE Split(_)
Split(q) == IF \A i \in 1..Len(q) : q[i] # "," THEN <<q>>
            ELSE <<SubSeq(q, 1, Comma(q) - 1)>> \o Split(SubSeq(q, Comma(q) + 1, Len(q)))

\* strings.TrimSpace(q)
RECURSIVE TrimSpace(_)
TrimSpace(q) == IF q # <<>> /\ Head(q) = " " THEN TrimSpace(Tail(q))
                ELSE IF q # <<>> /\ q[Len(q)] = " " THEN TrimSpace(SubSeq(q, 1, Len(q) - 1))
                ELSE q

\* the parts of an interfaces value, each trimmed
Trimmed(ifs) == [i \in 1..Len(Split(ifs)) |-> TrimSpace(Split(ifs)[i])]

\* a trimmed part is kept
NonEmpty(x) == x # <<>>

\* (mutation of parseInterfaceList) every part of the interfaces value is kept
parseKeepsEmptyParts(ifs, if1) ==
    IF ifs # <<>> THEN Trimmed(ifs)
    ELSE IF if1 # <<>> THEN <<TrimSpace(if1)>> ELSE <<>>

\* parseInterfaceList: the non-empty trimmed parts of "interfaces" if that is
\* given, else the trimmed "interface" if that is given, else nothing
parseInterfaceList(ifs, if1) ==
    IF ifs # <<>> THEN SelectSeq(Trimmed(ifs), NonEmpty)
    ELSE IF if1 # <<>> THEN <<TrimSpace(if1)>> ELSE <<>>

\* MonitorTrafficWS validates the request: router_id, then len(interfaces)
WSValid(p, ifs, if1) == ValidRouterId(p) /\ Len(parseInterfaceList(ifs, if1)) # 0

\* a streaming request that fails validation: one error event is written and
\* the handler returns (the deferred conn.Close())
WSReject(c, p, ifs, if1) ==
    /\ hpc[c] = "none"
    /\ ~ctxDone[c]
    /\ ~WSValid(p, ifs, if1)
    /\ wsreq' = [wsreq EXCEPT ![c] = [p |-> p, ifs |-> ifs, if1 |-> if1]]
    /\ events' = [events EXCEPT ![c].invalid = @ + 1]
    /\ hpc' = [hpc EXCEPT ![c] = "exited"]
    /\ UNCHANGED <<svcVars, req, resp, resultChan, nif, startErrors, rpc, wsMutex, wsOpen, doneCh,
                   monVars, mgrVars, lockVars, repoVars, chk, taskVars>>

\* ---------------------------------------------------------------- specification
\* what every goroutine of the connection manager can do
Manager ==
    \/ \E t \in Tasks : Reset(t)
    \/ \E t \in Tasks : ConnectRouter(t)
    \/ \E s \in Sessions, ok \in BOOLEAN : dialWorker(s, ok)
    \/ \E t \in Tasks : dialWithTimeoutResult(t)
    \/ \E t \in Tasks : dialWithTimeoutExpired(t)
    \/ \E t \in Tasks, info \in BOOLEAN : ConnectRouterStore(t, info)
    \/ \E t \in Tasks : GetConnection(t)
    \/ \E t \in Tasks : GetConnectionReread(t)
    \/ \E t \in Tasks : GetConnectionReturn(t)

\* what the device can answer to EnableInterface's /interface/print on s: an
\* error, an empty reply, or the interface
Lookups(s) == IF client[s] = "open" THEN {"fail", "none", "found"} ELSE {"fail"}

\* (mutation of EnableInterfaceLookup) conn.mu is released after the lookup
\* and the set command runs without it
LookupUnlocks(t, r) ==
    /\ pc[t] = "cmd_run"
    /\ op[t] = "EnableInterface"
    /\ r \in Lookups(conn[t])
    /\ connMuW' = [connMuW EXCEPT ![conn[t]] = "free"]
    /\ IF r = "found"
       THEN /\ pc' = [pc EXCEPT ![t] = "cmd_set"]
            /\ UNCHANGED err
       ELSE /\ pc' = [pc EXCEPT ![t] = "done"]
            /\ err' = [err EXCEPT ![t] = IF r = "none" THEN "notfound" ELSE "cmderr"]
    /\ UNCHANGED <<svcVars, httpVars, wsVars, monVars, connMuR, lockq, op, rid, conn, pre, mgrVars,
                   repoVars, chk>>

\* EnableInterface / DisableInterface, holding conn.mu: the /interface/print
\* lookup returns r.  An error or an empty reply is returned (the deferred
\* Unlock); with the interface found the call goes on to /interface/set
EnableInterfaceLookup(t, r) ==
    /\ pc[t] = "cmd_run"
    /\ op[t] = "EnableInterface"
    /\ r \in Lookups(conn[t])
    /\ IF r = "found"
       THEN /\ pc' = [pc EXCEPT ![t] = "cmd_set"]
            /\ UNCHANGED <<err, connMuW>>
       ELSE /\ pc' = [pc EXCEPT ![t] = "done"]
            /\ err' = [err EXCEPT ![t] = IF r = "none" THEN "notfound" ELSE "cmderr"]
            /\ connMuW' = [connMuW EXCEPT ![conn[t]] = "free"]
    /\ UNCHANGED <<svcVars, httpVars, wsVars, monVars, connMuR, lockq, op, rid, conn, pre, mgrVars,
                   repoVars, chk>>

\* the /interface/set command returns; its error is the call's; the deferred
\* conn.mu.Unlock()
EnableInterfaceSet(t) ==
    /\ pc[t] = "cmd_set"
    /\ \E ok \in Outcomes(conn[t]) :
          err' = [err EXCEPT ![t] = IF ok THEN "" ELSE "cmderr"]
    /\ connMuW' = [connMuW EXCEPT ![conn[t]] = "free"]
    /\ pc' = [pc EXCEPT ![t] = "done"]
    /\ UNCHANGED <<svcVars, httpVars, wsVars, monVars, connMuR, lockq, op, rid, conn, pre, mgrVars,
                   repoVars, chk>>

Toggle ==
    \/ \E t \in Tasks, r \in {"fail", "none", "found"} : EnableInterfaceLookup(t, r)
    \/ \E t \in Tasks : EnableInterfaceSet(t)

Commands ==
    \/ \E t \in Tasks : DisconnectRouter(t)
    \/ \E t \in Tasks : LockWait(t)
    \/ \E t \in Tasks : RunBegin(t)
    \/ \E t \in Tasks : RunEnd(t)

HealthSweep ==
    \/ healthCheckRoutine
    \/ \E s \in Sessions : checkConnectionBegin(s)
    \/ \E s \in Sessions : checkConnection(s)

Monitor ==
    \/ \E t \in Tasks : Listen(t)
    \/ \E k \in Subs : dispatchCtxDone(k)
    \/ \E k \in Subs : dispatchSentence(k)
    \/ \E k \in Subs : dispatchClosed(k)
    \/ \E k \in Subs : DevicePaced(k, "!re")
    \/ \E k \in Subs : DeviceEnd(k)
    \/ \E c \in Clients : CancelCtx(c)

\* Spec: every management and command call on router 1, with the health sweep
Next ==
    \/ \E t \in Tasks, o \in Ops : Call(t, o, 1)
    \/ Manager
    \/ Commands
    \/ HealthSweep

Spec == Init /\ [][Next]_vars

\* SpecAdmin: connects and lookups on router 1 while its activation flag changes
NextAdmin ==
    \/ \E t \in Tasks, o \in {"Connect", "GetConn"} : Call(t, o, 1)
    \/ \E b \in BOOLEAN : SetActive(1, b)
    \/ Manager
    \/ HealthSweep

SpecAdmin == Init /\ [][NextAdmin]_vars

\* SpecTwo: connects and lookups on two routers
NextTwo ==
    \/ \E t \in Tasks, o \in {"Connect", "GetConn"}, d \in Routers : Call(t, o, d)
    \/ Manager

SpecTwo == Init /\ [][NextTwo]_vars

\* SpecDial: SpecTwo's calls on router 1; the timer of dialWithTimeout fires
NextDial ==
    \/ \E t \in Tasks, o \in {"Connect", "GetConn"} : Call(t, o, 1)
    \/ Manager

SpecDial == Init /\ [][NextDial]_vars /\ \A t \in Tasks : WF_vars(dialWithTimeoutExpired(t))

\* SpecSweep: connects and lookups on router 1 and the health sweep; every goroutine of the
\* daemon that can take a step eventually takes one, the ticker keeps ticking.
\* Client requests and what the device answers are under no such obligation.
NextSweep ==
    \/ \E t \in Tasks, o \in {"Connect", "GetConn"} : Call(t, o, 1)
    \/ Manager
    \/ HealthSweep

SpecSweep ==
    /\ Init /\ [][NextSweep]_vars
    /\ WF_vars(HealthSweep)
    /\ \A t \in Tasks : /\ WF_vars(ConnectRouter(t))
                         /\ WF_vars(dialWithTimeoutResult(t))
                         /\ WF_vars(dialWithTimeoutExpired(t))
                         /\ WF_vars(\E info \in BOOLEAN : ConnectRouterStore(t, info))

\* SpecCmdMon: commands and monitor calls on router 1, which answers every dial
NextCmdMon ==
    \/ \E t \in Tasks, o \in {"ReadCmd", "WriteCmd"} : Call(t, o, 1)
    \/ \E t \in Tasks, i \in Ifaces : CallMonitor(t, 1, i, "A")
    \/ \E t \in Tasks : Reset(t)
    \/ \E t \in Tasks : ConnectRouter(t)
    \/ \E s \in Sessions : dialWorker(s, TRUE)
    \/ \E t \in Tasks : dialWithTimeoutResult(t)
    \/ \E t \in Tasks : ConnectRouterStore(t, TRUE)
    \/ \E t \in Tasks : GetConnection(t)
    \/ \E t \in Tasks : GetConnectionReread(t)
    \/ \E t \in Tasks : GetConnectionReturn(t)
    \/ \E t \in Tasks : RunBegin(t)
    \/ \E t \in Tasks : RunEnd(t)
    \/ \E t \in Tasks : Listen(t)

SpecCmdMon == Init /\ [][NextCmdMon]_vars

\* SpecTeardown: task 1 makes monitor calls on router 1 and task 2 disconnects
\* it; the device sends samples and never ends a stream itself; no consumer
\* cancels; every dispatch goroutine that can take a step eventually takes one
NextTeardown ==
    \/ Call(2, "Disconnect", 1)
    \/ \E i \in Ifaces : CallMonitor(1, 1, i, "A")
    \/ \E t \in Tasks : Reset(t)
    \/ \E t \in Tasks : ConnectRouter(t)
    \/ \E s \in Sessions : dialWorker(s, TRUE)
    \/ \E t \in Tasks : dialWithTimeoutResult(t)
    \/ \E t \in Tasks : ConnectRouterStore(t, TRUE)
    \/ \E t \in Tasks : DisconnectRouter(t)
    \/ \E t \in Tasks : GetConnection(t)
    \/ \E t \in Tasks : GetConnectionReread(t)
    \/ \E t \in Tasks : GetConnectionReturn(t)
    \/ \E t \in Tasks : Listen(t)
    \/ \E k \in Subs : dispatchSentence(k)
    \/ \E k \in Subs : dispatchClosed(k)
    \/ \E k \in Subs : DeviceEmit(k, "!re")

SpecTeardown ==
    /\ Init /\ [][NextTeardown]_vars
    /\ \A k \in Subs : WF_vars(dispatchSentence(k)) /\ WF_vars(dispatchClosed(k))

\* SpecOrder: task 1 makes monitor calls for client A on router 1; the device
\* sends sentences in bursts
NextOrder ==
    \/ \E i \in Ifaces : CallMonitor(1, 1, i, "A")
    \/ \E t \in Tasks : Reset(t)
    \/ \E t \in Tasks : ConnectRouter(t)
    \/ \E s \in Sessions : dialWorker(s, TRUE)
    \/ \E t \in Tasks : dialWithTimeoutResult(t)
    \/ \E t \in Tasks : ConnectRouterStore(t, TRUE)
    \/ \E t \in Tasks : GetConnection(t)
    \/ \E t \in Tasks : GetConnectionReread(t)
    \/ \E t \in Tasks : GetConnectionReturn(t)
    \/ \E t \in Tasks : Listen(t)
    \/ \E k \in Subs : dispatchCtxDone(k)
    \/ \E k \in Subs : dispatchSentence(k)
    \/ \E k \in Subs : dispatchClosed(k)
    \/ \E k \in Subs, w \in Words : DeviceEmit(k, w)
    \/ \E k \in Subs : DeviceEnd(k)
    \/ CancelCtx("A")

SpecOrder == Init /\ [][NextOrder]_vars

\* SpecWS: client A's streaming request for router 1, whose dials may fail.
\* Every goroutine of the daemon that can take a step eventually takes one;
\* what the client and the device do is under no such obligation.
StreamTasks ==
    \/ \E t \in Tasks : ConnectRouter(t)
    \/ \E t \in Tasks : dialWithTimeoutResult(t)
    \/ \E t \in Tasks : ConnectRouterStore(t, TRUE)
    \/ \E t \in Tasks : GetConnection(t)
    \/ \E t \in Tasks : GetConnectionReread(t)
    \/ \E t \in Tasks : GetConnectionReturn(t)
    \/ \E t \in Tasks : Listen(t)
    \/ \E t \in Tasks : WSGoroutineEnd(t)
    \/ \E k \in Subs : dispatchCtxDone(k)
    \/ \E k \in Subs : dispatchSentence(k)
    \/ \E k \in Subs : callbackLock(k)

StreamHandler ==
    \/ WSStatus("A")
    \/ WSStatusErr("A")
    \/ WSStatusOk("A")
    \/ WSDone("A")
    \/ WSPongBegin("A")
    \/ WSPongEnd("A")

NextWS ==
    \/ \E i \in Ifaces, T \in SUBSET Tasks : WSOpen("A", 1, i, T)
    \/ \E s \in Sessions, ok \in BOOLEAN : dialWorker(s, ok)
    \/ \E k \in Subs : DevicePaced(k, "!re")
    \/ \E k \in Subs, ok \in BOOLEAN : callbackWrite(k, ok)
    \/ \E p \in RouterIdParams, ifs \in QueryStrings, if1 \in QueryStrings :
          WSReject("A", p, ifs, if1)
    \/ WSPing("A")
    \/ WSReadError("A")
    \/ StreamTasks
    \/ StreamHandler

SpecWS ==
    /\ Init /\ [][NextWS]_vars
    /\ WF_vars(StreamTasks)
    /\ WF_vars(StreamHandler)
    /\ WF_vars(\E k \in Subs, ok \in BOOLEAN : callbackWrite(k, ok))

\* SpecStream: SpecWS with a wsMutex that starves no waiter.  A goroutine
\* blocked in sync.Mutex.Lock is handed the mutex once it has waited long
\* enough (the mutex's starvation mode), however often other goroutines lock
\* and unlock it in between; so a callback that can take wsMutex again and
\* again eventually does.
SpecStream ==
    /\ Init /\ [][NextWS]_vars
    /\ WF_vars(StreamTasks)
    /\ WF_vars(StreamHandler)
    /\ WF_vars(\E k \in Subs, ok \in BOOLEAN : callbackWrite(k, ok))
    /\ \A k \in Subs : SF_vars(callbackLock(k))

\* SpecMon: streaming clients monitoring router 1, which answers every dial and
\* the system-info query in time and sends samples only
NextMon ==
    \/ \E t \in Tasks, i \in Ifaces, c \in Clients : CallMonitor(t, 1, i, c)
    \/ \E t \in Tasks : Reset(t)
    \/ \E t \in Tasks : ConnectRouter(t)
    \/ \E s \in Sessions : dialWorker(s, TRUE)
    \/ \E t \in Tasks : dialWithTimeoutResult(t)
    \/ \E t \in Tasks : ConnectRouterStore(t, TRUE)
    \/ \E t \in Tasks : GetConnection(t)
    \/ \E t \in Tasks : GetConnectionReread(t)
    \/ \E t \in Tasks : GetConnectionReturn(t)
    \/ Monitor

SpecMon == Init /\ [][NextMon]_vars

\* SpecToggle: EnableInterface / DisableInterface calls, plain write commands
\* and disconnects on router 1, with the health sweep
NextToggle ==
    \/ \E t \in Tasks, o \in {"EnableInterface", "WriteCmd", "Disconnect"} : Call(t, o, 1)
    \/ Manager
    \/ Commands
    \/ Toggle
    \/ HealthSweep

SpecToggle == Init /\ [][NextToggle]_vars

\* SpecOnce: the callers of GetMikrotikService, from the package's initial
\* state
NextOnce ==
    \/ \E c \in Callers : GetMikrotikService(c)
    \/ \E c \in Callers : OnceDo(c)
    \/ \E c \in Callers : MakeService(c)
    \/ \E c \in Callers : StartAutoConnect(c)
    \/ \E c \in Callers : StartHealthCheck(c)
    \/ \E c \in Callers : GetMikrotikServiceReturn(c)
    \/ \E c \in Callers : CallAgain(c)

InitOnce == InitManager /\ InitPackage

SpecOnce == InitOnce /\ [][NextOnce]_vars

\* SpecConnect: connect requests for router 1 over HTTP; the device may fail a
\* dial, never answer it, or never answer the system-info query.  A handler
\* validates and its 30 s timer fires; a goroutine that can send its result
\* does.
NextConnect ==
    \/ \E t \in Tasks : HttpRequest(t, "ConnectRouterHandler", "1", <<>>)
    \/ \E t \in Tasks : HttpValidate(t)
    \/ \E t \in Tasks : ConnectRouter(t)
    \/ \E s \in Sessions, ok \in BOOLEAN : dialWorker(s, ok)
    \/ \E t \in Tasks : dialWithTimeoutResult(t)
    \/ \E t \in Tasks : dialWithTimeoutExpired(t)
    \/ \E t \in Tasks : ConnectRouterStore(t, TRUE)
    \/ \E t \in Tasks : ConnectRouterHandlerResult(t)
    \/ \E t \in Tasks : ConnectRouterHandlerTimeout(t)

SpecConnect ==
    /\ Init /\ [][NextConnect]_vars
    /\ \A t \in Tasks : /\ WF_vars(HttpValidate(t))
                         /\ WF_vars(ConnectRouterHandlerResult(t))
                         /\ WF_vars(ConnectRouterHandlerTimeout(t))

\* SpecHttp: requests to every handler for router 1, with every value of
\* router_id and of the other parameters
NextHttp ==
    \/ \E t \in Tasks, h \in DOMAIN Handlers, p \in RouterIdParams :
          \E a \in ArgsOf(h) : HttpRequest(t, h, p, a)
    \/ \E t \in Tasks : HttpValidate(t)
    \/ \E t \in Tasks : ConnectRouter(t)
    \/ \E s \in Sessions, ok \in BOOLEAN : dialWorker(s, ok)
    \/ \E t \in Tasks : dialWithTimeoutResult(t)
    \/ \E t \in Tasks : dialWithTimeoutExpired(t)
    \/ \E t \in Tasks : ConnectRouterStore(t, TRUE)
    \/ \E t \in Tasks : GetConnection(t)
    \/ \E t \in Tasks : GetConnectionReread(t)
    \/ \E t \in Tasks : GetConnectionReturn(t)
    \/ Commands
    \/ Toggle
    \/ \E t \in Tasks : HandlerReturn(t)
    \/ \E t \in Tasks : ConnectRouterHandlerResult(t)
    \/ \E t \in Tasks : ConnectRouterHandlerTimeout(t)

SpecHttp == Init /\ [][NextHttp]_vars

\* ================================================================ claims

\* ---- C1
\* every client ever dialled for d is still being set up or is the open client
\* of the map entry: no dial for d has failed or timed out, no session of d has
\* been evicted or disconnected
Pristine(d) ==
    \A s \in Sessions : RouterOf(s) = d => client[s] \in {"none", "dialing", "open"}

\* C1: while no dial for a device has failed and none of its sessions has been
\* removed, however many callers have invoked ConnectRouter/GetConnection for it,
\* at most one dial+login has been performed; every caller that returned success
\* finds the map holding a session, and every GetConnection caller holds that
\* very session.
C1_OneDialSharedSession ==
    \A d \in Routers :
        Pristine(d) =>
            /\ dialCount[d] <= 1
            /\ \A t \in Tasks :
                  (pc[t] = "done" /\ rid[t] = d /\ err[t] = ""
                      /\ op[t] \in {"Connect", "GetConn"}) =>
                      /\ connections[d] # NoConn
                      /\ op[t] = "GetConn" => conn[t] = connections[d]

\* two GetConnection callers for router 1 have both returned the one session
\* that one dial produced
C1_Witness ==
    /\ Pristine(1)
    /\ dialCount[1] = 1
    /\ \A t \in {1, 2} : /\ pc[t] = "done" /\ op[t] = "GetConn" /\ rid[t] = 1
                         /\ err[t] = "" /\ conn[t] = <<1, 1>>

\* ---- C2
\* C2 (as claimed): on no session are two synchronous commands (a Run/RunArgs
\* of a service call, or the health sweep's liveness command) in flight at the
\* same time.
C2_CommandsSerialized ==
    \A s \in Sessions : InFlight(s) <= 1

\* ---- C3
\* C3 (as claimed): for every router and interface at most one device
\* subscription (Client.Listen) is open, however many consumers registered.
C3_OneSubscriptionPerKey ==
    \A d \in Routers, i \in Ifaces : Cardinality(OpenSubs(d, i)) <= 1

\* ---- C4
\* the consumers attached to router d, interface i: their monitor call
\* succeeded, their context is not cancelled, their dispatch goroutine runs
Attached(d, i) == {k \in Subs : /\ subs[k].state # "none"
                                /\ RouterOf(subs[k].sess) = d
                                /\ subs[k].iface = i
                                /\ subs[k].gpc = "select"
                                /\ ~ctxDone[subs[k].ctx]}

\* C4 (as claimed): in every state, a device subscription is open for a router
\* and interface if and only if at least one consumer is attached to that pair.
C4_OpenIffConsumers ==
    \A d \in Routers, i \in Ifaces : (OpenSubs(d, i) # {}) <=> (Attached(d, i) # {})

\* ---- C5
\* C5: a subscription's dispatch goroutine stops only when its own context is
\* cancelled or its stream has ended, and a sample it took from the device is
\* withheld from its callback only when its own context is cancelled; so the
\* cancellation of another client on the same router and interface never stops
\* or thins its delivery.
C5_OtherClientKeepsReceiving ==
    \A k \in Subs :
        subs[k].state # "none" =>
            /\ subs[k].gpc = "stopped" => (ctxDone[subs[k].ctx] \/ StreamEnded(k))
            /\ subs[k].dropped => ctxDone[subs[k].ctx]

\* client A's subscription has been cancelled with A's context, while client
\* B's subscription on the same router and interface is open and has delivered
\* every sample of the run
C5_Witness ==
    \E a, b \in Subs :
        /\ subs[a].state = "cancelled" /\ subs[a].ctx = "A" /\ ctxDone["A"]
        /\ subs[b].state = "open" /\ subs[b].ctx = "B" /\ ~ctxDone["B"]
        /\ subs[a].sess = subs[b].sess /\ subs[a].iface = subs[b].iface
        /\ subs[b].gpc = "select" /\ subs[b].delivered = MaxEmit

\* ---- C6
\* C6 (as claimed): no task holds ms.mu while it is in a network call to a
\* device (the dial and login of dialWithTimeout, the system-info command).
C6_MuOnlyForMapAccess ==
    \A t \in mu : pc[t] \notin {"cr_dial", "cr_sysinfo"}

\* ---- C7
\* C7 (as claimed): a GetConnection for a router that has a healthy session in
\* the map never has to wait for ms.mu held by an operation on another router.
C7_DevicesIndependent ==
    \A t \in Tasks :
        (pc[t] = "gc_start" /\ HealthyInMap(rid[t])) =>
            \A u \in mu : rid[u] = rid[t]

\* ---- C8
\* C8 (as claimed): a GetConnection (alone or inside a command) called while a
\* session marked unhealthy is the device's map entry does not fail because
\* of that session, and does not return an unhealthy session's error.
C8_UnhealthyIsReplaced ==
    \A t \in Tasks :
        (pc[t] = "done" /\ "stale" \in pre[t]
            /\ op[t] \in {"GetConn", "ReadCmd", "WriteCmd"}) => err[t] # "unhealthy"

\* ---- C9
\* C9 (as claimed): a ConnectRouter/GetConnection call made while the
\* descriptor is deactivated and the map holds no healthy session, these
\* staying so during the call, returns 'router is not active' and leaves no
\* session for the router in the map.
C9_InactiveIsRefused ==
    \A t \in Tasks :
        (pc[t] = "done" /\ "inactive" \in pre[t] /\ op[t] \in {"Connect", "GetConn"}) =>
            /\ err[t] = "inactive"
            /\ connections[rid[t]] = NoConn

\* ---- C10
\* the worker of t's dial has put its result on resultChan
Answered(t) ==
    /\ rid[t] \in Routers
    /\ dialCount[rid[t]] > 0
    /\ client[DialSid(t)] \in {"open", "failed"}

\* ConnectRouter has returned the timeout failure and given up ms.mu
TimedOut(t) == pc[t] = "done" /\ err[t] = "timeout" /\ t \notin mu

\* C10: a caller waiting in dialWithTimeout eventually leaves it: with the
\* worker's answer, or else (the device never answers) with the timeout
\* failure, ConnectRouter returned and the map lock released.
C10_DialReturns ==
    \A t \in Tasks :
        (pc[t] = "cr_dial") ~> (TimedOut(t) \/ (Answered(t) /\ pc[t] # "cr_dial"))

\* a ConnectRouter has returned the timeout failure, the lock is free, and its
\* worker has still not answered
C10_Witness ==
    \E t \in Tasks : /\ TimedOut(t) /\ mu = {}
                     /\ op[t] = "Connect"
                     /\ client[DialSid(t)] = "abandoned"

\* ---- C11
\* the reconnect that checkConnection started for d has returned a dial failure
ReconnectFailed(d) ==
    \E t \in Tasks : /\ op[t] = "Reconnect" /\ rid[t] = d /\ pc[t] = "done"
                     /\ err[t] \in {"dialfail", "timeout"}

\* a reconnect for d started by the sweep is under way
ReconnectUnderWay(d) ==
    \E t \in Tasks : /\ op[t] = "Reconnect" /\ rid[t] = d
                     /\ pc[t] \in {"cr_start", "cr_dial", "cr_sysinfo"}

\* a client's call for d is in progress
ClientRequest(d) ==
    \E t \in Tasks : /\ op[t] \in Ops \cup {"Monitor"} /\ rid[t] = d
                     /\ pc[t] \notin {"idle", "done"}

\* C11 (as claimed): after the reconnect started by a failed health check has
\* itself failed, a later sweep starts another reconnect for the device,
\* unless a client's request for it comes first.
C11_FailedReconnectIsRetried ==
    \A d \in Routers :
        ReconnectFailed(d) ~> (ReconnectUnderWay(d) \/ ClientRequest(d))

\* ---- C12
\* C12: a DisconnectRouter(d) that finds a session for d in the map closes its
\* client, removes it, sets the registry status to "offline" and returns nil;
\* one that finds none returns 'router not connected' and changes neither the
\* map nor the registry status.
C12_DisconnectContract ==
    [][\A t \in Tasks :
          (pc[t] = "dr_start" /\ pc'[t] = "done") =>
              IF connections[rid[t]] # NoConn
              THEN /\ client'[connections[rid[t]]] = "closed"
                   /\ connections'[rid[t]] = NoConn
                   /\ repoStatus'[rid[t]] = "offline"
                   /\ err'[t] = ""
              ELSE /\ err'[t] = "notconnected"
                   /\ connections' = connections
                   /\ repoStatus' = repoStatus]_vars

\* a DisconnectRouter(1) has succeeded: the session that was online is closed
\* and gone, the status is "offline"
C12_Witness ==
    \E t \in Tasks : /\ op[t] = "Disconnect" /\ pc[t] = "done" /\ err[t] = ""
                     /\ connections[1] = NoConn /\ client[<<1, 1>>] = "closed"
                     /\ repoStatus[1] = "offline"

\* ---- C13
\* the session subscription k was opened on has been closed by DisconnectRouter
TornDown(k) ==
    /\ subs[k].state = "open"
    /\ client[subs[k].sess] = "closed"
    /\ connections[RouterOf(subs[k].sess)] # subs[k].sess

\* C13: once DisconnectRouter has closed the session of an open subscription,
\* the subscription's dispatch goroutine eventually returns; from then on it
\* calls its callback no more.
C13_TeardownEndsSubscriptions ==
    \A k \in Subs : TornDown(k) ~> (subs[k].gpc = "stopped")

\* a subscription whose session was disconnected has stopped, after it had
\* delivered a sample, and not because its context was cancelled or the
\* device ended the stream
C13_Witness ==
    \E k \in Subs : /\ subs[k].gpc = "stopped" /\ subs[k].delivered > 0
                    /\ client[subs[k].sess] = "closed"
                    /\ ~subs[k].closed /\ ~ctxDone[subs[k].ctx]

\* ---- C14
\* the goroutines of client c's session that are inside a write to its socket
Writers(c) ==
    {<<"main", 0>> : x \in {y \in {1} : hpc[c] \in {"status_err", "status_ok"} /\ wsOpen[c]}}
    \cup {<<"reader", 0>> : x \in {y \in {1} : rpc[c] = "pong_write" /\ wsOpen[c]}}
    \cup {<<"cb", k>> : k \in {j \in Subs : subs[j].gpc = "cb_write" /\ subs[j].ctx = c}}

\* C14: in every state at most one goroutine of a streaming session is inside
\* a write to the client's socket (the handler's status events, the read
\* goroutine's pong, the callbacks' traffic_update), and it holds wsMutex.
C14_OneWriter ==
    \A c \in Clients :
        /\ Cardinality(Writers(c)) <= 1
        /\ Writers(c) \subseteq {wsMutex[c]}

\* a callback is writing a traffic_update while the read goroutine waits with
\* a pong and the callback of the other interface waits with its sample
C14_Witness ==
    \E j, k \in Subs :
        /\ subs[j].ctx = "A" /\ subs[j].gpc = "cb_write"
        /\ subs[k].ctx = "A" /\ subs[k].gpc = "cb_lock"
        /\ rpc["A"] = "pong_lock"

\* ---- C15
\* the device subscriptions open for client c's handler
OpenFor(c) == {k \in Subs : subs[k].state = "open" /\ subs[k].ctx = c}

\* the monitor calls of c's handler that may still open a subscription
Starting(c) == {t \in Pending(c) : pc[t] # "done"}

\* C15 (as claimed): once a streaming handler has returned, no device
\* subscription it opened is still open and none of its monitor calls is
\* still on its way to open one.
C15_NoLeakAtExit ==
    \A c \in Clients : hpc[c] = "exited" => (OpenFor(c) = {} /\ Starting(c) = {})

\* ---- C16
\* C16 (as claimed): whenever the context of a running streaming handler has
\* been cancelled (by its read goroutine, or by a callback whose write
\* failed), the handler eventually returns.
C16_CancelledHandlerExits ==
    \A c \in Clients :
        (hpc[c] \notin {"none", "exited"} /\ ctxDone[c]) ~> (hpc[c] = "exited")

\* ---- C17
\* C17 (as claimed): when all monitor calls of a streaming request have
\* returned and the handler waits for the client (session not cancelled), not
\* every interface has failed, and the failed ones, if any, have all been
\* named in the error event.
C17_StartFailuresReported ==
    \A c \in Clients :
        (hpc[c] = "wait" /\ ~ctxDone[c] /\ Pending(c) = {}) =>
            /\ startErrors[c] < nif[c]
            /\ events[c].error = startErrors[c]

\* ---- C18
\* C18: whenever a subscription's callback is called, the sample it is given
\* was sent by the device after every sample the callback was given before
\* (and the callback is called from the one dispatch goroutine, one call at
\* a time).
C18_DeliveredInOrder ==
    [][\A k \in Subs :
          (subs[k].state = "open" /\ subs'[k].delivered > subs[k].delivered) =>
              subs'[k].last > subs[k].last]_vars

\* a subscription has delivered the first and then the second sample of the
\* device and waits for more
C18_Witness ==
    \E k \in Subs : /\ subs[k].delivered = 2 /\ subs[k].last = 2
                    /\ subs[k].gpc = "select"

\* ---- C19
\* C19: a monitor call that has its connection opens its subscription without
\* waiting for conn.mu, whoever holds it (a subscription slot being left),
\* and a command that holds conn.mu can return whatever subscriptions are open.
C19_ListenNeverWaits ==
    /\ \A t \in Tasks : (pc[t] = "mon_listen" /\ NextSub \in Subs) => ENABLED Listen(t)
    /\ \A t \in Tasks : pc[t] = "cmd_run" => ENABLED RunEnd(t)

\* a monitor call has opened its subscription on the session on which a
\* mutating command holds conn.mu
C19_Witness ==
    \E t, u \in Tasks, k \in Subs :
        /\ op[t] = "Monitor" /\ pc[t] = "done" /\ err[t] = ""
        /\ op[u] = "WriteCmd" /\ pc[u] = "cmd_run" /\ conn[u] = conn[t]
        /\ connMuW[conn[u]] = "cmd"
        /\ subs[k].state = "open" /\ subs[k].sess = conn[t]

\* ---- C20
\* C20: when the dial and login of a ConnectRouter have succeeded, whatever
\* getSystemInfo answers, ConnectRouter stores the new session as healthy, sets
\* the registry status to "online" and returns nil.
C20_SysInfoIsBestEffort ==
    [][\A t \in Tasks :
          (pc[t] = "cr_sysinfo" /\ pc'[t] # "cr_sysinfo") =>
              /\ connections'[rid[t]] = DialSid(t)
              /\ IsHealthy'[DialSid(t)]
              /\ repoStatus'[rid[t]] = "online"
              /\ err'[t] = ""
              /\ pc'[t] = ReturnPc(t, "")]_vars

\* ConnectRouter(1) has returned nil with a healthy session stored and status
\* "online" although getSystemInfo gave no version
C20_Witness ==
    \E t \in Tasks : /\ op[t] = "Connect" /\ rid[t] = 1 /\ pc[t] = "done" /\ err[t] = ""
                     /\ HealthyInMap(1) /\ repoStatus[1] = "online"
                     /\ ~repoVersion[1]

\* ---- C21
\* C21: when the dial or login of a ConnectRouter fails or times out,
\* ConnectRouter returns an error, the registry status of the device is "error",
\* the map holds no session for the device, and ms.mu is released (so every
\* later call can take it).
C21_DialFailureContract ==
    [][\A t \in Tasks :
          (pc[t] = "cr_dial" /\ pc'[t] = "done") =>
              /\ err'[t] \in {"dialfail", "timeout"}
              /\ repoStatus'[rid[t]] = "error"
              /\ connections'[rid[t]] = NoConn
              /\ mu' = {}]_vars

\* a ConnectRouter(1) has returned a dial failure, the status is "error", the
\* map is empty, and a later call for the router has taken ms.mu and dials
C21_Witness ==
    \E t, u \in Tasks :
        /\ pc[t] = "done" /\ op[t] = "Connect" /\ err[t] \in {"dialfail", "timeout"}
        /\ repoStatus[1] = "error" /\ connections[1] = NoConn
        /\ pc[u] = "cr_dial" /\ mu = {u} /\ dialCount[1] = 2

\* ---- C22
\* the dispatch goroutine of k takes the oldest sentence of its channel and
\* goes on
Took(k) ==
    /\ subs[k].gpc = "select"
    /\ subs[k].chan # <<>>
    /\ subs'[k].state = "open"
    /\ subs'[k].chan = Tail(subs[k].chan)

\* C22: in the dispatch loop only a "!re" sentence is turned into a sample and
\* given to the callback; a "!trap", "!done" or other sentence is dropped, the
\* callback is not called and the loop goes on; and when the loop finds the
\* channel closed it returns and the subscription is cancelled.
C22_OnlyDataRecordsDelivered ==
    [][\A k \in Subs :
          /\ Took(k) =>
                IF Head(subs[k].chan)[1] = "!re"
                THEN /\ subs'[k].delivered = subs[k].delivered + 1
                     /\ subs'[k].last = Head(subs[k].chan)[2]
                ELSE /\ subs'[k].delivered = subs[k].delivered
                     /\ subs'[k].gpc = "select"
          /\ subs'[k].delivered # subs[k].delivered =>
                (subs[k].chan # <<>> /\ Head(subs[k].chan)[1] = "!re")
          /\ (subs[k].gpc = "select" /\ subs[k].chan = <<>> /\ StreamEnded(k)
                 /\ subs'[k] # subs[k]) =>
                (subs'[k].gpc = "stopped" /\ subs'[k].state = "cancelled")]_vars

\* a subscription has dropped a non-data sentence, gone on to deliver a sample,
\* and then, the device having ended the stream, has stopped and is cancelled
C22_Witness ==
    \E k \in Subs : /\ subs[k].skipped /\ subs[k].delivered = 1
                    /\ subs[k].closed /\ ~ctxDone[subs[k].ctx]
                    /\ subs[k].gpc = "stopped" /\ subs[k].state = "cancelled"

\* ---- C23
\* a step in which the handler of t's connect request answers
Answers(t) == Waiting(t) /\ op[t] = "Connect" /\ ~Waiting(t)'

\* C23: ConnectRouterHandler answers each request exactly once: with what
\* ConnectRouter returned if its goroutine reports before the 30 s deadline
\* fires, with 408 if the deadline fires first.  The deadline is a timer of its
\* own: its firing leaves the connect attempt as it is, and the 20 s dial
\* timeout makes ConnectRouter return an error, never a response by itself.  A
\* goroutine that finishes after the 408 still sends its result and ends.
C23_ConnectAnsweredOnce ==
    /\ [][\A t \in Tasks :
             /\ Answers(t) =>
                   \/ /\ pc[t] = "done"
                      /\ resp'[t] = IF err[t] = "" THEN [code |-> "200", success |-> TRUE, error |-> ""]
                                    ELSE [code |-> "500", success |-> FALSE, error |-> err[t]]
                   \/ /\ resp'[t].code = "408"
                      /\ resultChan[t] = 0
                      /\ UNCHANGED <<taskVars, mgrVars, repoVars>>
             /\ (resp[t].code \in {"200", "500", "408"} /\ resp'[t] # resp[t]) =>
                   (pc[t] = "idle" /\ pc'[t] = "http")
             /\ (pc[t] = "cr_dial" /\ pc'[t] # "cr_dial") => resp'[t] = resp[t]]_vars
    /\ \A t \in Tasks : Waiting(t) ~> ~Waiting(t)
    /\ \A t \in Tasks : (pc[t] = "done") ~> (pc[t] = "idle")

\* a connect request was answered 408; its ConnectRouter finished later, left
\* its result in resultChan and its goroutine has ended
C23_Witness ==
    \E t \in Tasks : /\ resp[t].code = "408" /\ resultChan[t] = 1
                     /\ pc[t] = "idle"

\* ---- C25
\* C25: a handler validating a request whose router_id is missing, not a
\* number or 0, or one of whose other required parameters is empty, answers
\* 400 with a failure envelope (error set) and makes no call into the manager:
\* no map, session, lock, registry or task state changes.  When the manager
\* call of a handler returns an error, the handler answers 500 with that
\* error as the envelope's error.
C25_ValidationAndFailureReplies ==
    [][\A t \in Tasks :
          /\ (pc[t] = "http" /\ pc'[t] # "http"
                 /\ (req[t].p \in {"", "abc", "0"} \/ \E i \in DOMAIN req[t].a : req[t].a[i] = "")) =>
                /\ resp'[t].code = "400" /\ ~resp'[t].success /\ resp'[t].error # ""
                /\ pc'[t] = "idle"
                /\ UNCHANGED <<mgrVars, lockVars, repoVars, chk, op, rid, conn, err, subs>>
          /\ (pc[t] = "done" /\ pc'[t] # "done" /\ Waiting(t)
                 /\ err[t] \notin {"", "nilpanic"}) =>
                resp'[t] = [code |-> "500", success |-> FALSE, error |-> err[t]]]_vars

\* one request was refused with 400 before anything was dialled, and a request
\* that reached the manager was answered 500 with the manager's error
C25_Witness ==
    \E t, u \in Tasks :
        /\ resp[t].code = "400" /\ pc[t] = "idle"
        /\ resp[u].code = "500" /\ resp[u].error = "notconnected"
        /\ dialCount[1] = 0

\* ---- C24
\* the device id is missing, not a number or 0, or the request names no
\* interface: "interfaces" has nothing but separators and blanks, or it is
\* absent and so is "interface"
InvalidQuery(p, ifs, if1) ==
    \/ p \in {"", "abc", "0"}
    \/ IF ifs # <<>> THEN \A i \in 1..Len(ifs) : ifs[i] \in {",", " "} ELSE if1 = <<>>

\* C24: a streaming request (client A's) is refused exactly when its device id is invalid or
\* its interface list is empty; a refused request gets one error event and
\* nothing else, the handler returns, and nothing of the connection manager,
\* of any task or of any subscription changes.
C24_InvalidStreamRejected ==
    /\ []((hpc["A"] = "none" /\ ~ctxDone["A"]) =>
             \A p \in RouterIdParams, ifs \in QueryStrings, if1 \in QueryStrings :
                 ENABLED WSReject("A", p, ifs, if1) <=> InvalidQuery(p, ifs, if1))
    /\ [][\A c \in Clients :
             /\ (hpc[c] = "none" /\ hpc'[c] = "exited") =>
                   /\ events'[c] = [error |-> 0, connected |-> FALSE, invalid |-> 1]
                   /\ UNCHANGED <<mgrVars, lockVars, repoVars, chk, taskVars, monVars>>
             /\ (hpc[c] = "exited" /\ wsreq[c] # NoQuery) =>
                   (events'[c] = events[c] /\ hpc'[c] = "exited")]_vars

\* a request with router_id 1 whose interfaces value is a lone separator has
\* been refused with one error event; nothing was dialled, no subscription opened
C24_Witness ==
    /\ wsreq["A"] = [p |-> "1", ifs |-> <<",">>, if1 |-> <<>>]
    /\ hpc["A"] = "exited"
    /\ events["A"].invalid = 1
    /\ dialCount[1] = 0
    /\ \A k \in Subs : subs[k].state = "none"

\* ---- C26
\* C26 (as claimed): a command takes conn.mu only when no other caller that
\* started waiting for it earlier is still waiting: commands run on a device
\* in the order their callers started to wait for its lock.
C26_CommandsInSubmissionOrder ==
    [][\A t \in Tasks :
          (pc[t] = "cmd_lock" /\ pc'[t] = "cmd_run") =>
              (lockq[conn[t]] = <<>> \/ Head(lockq[conn[t]]) = t)]_vars

\* ---- C27
\* the reconnect goroutines for session s's router that a step starts
Started(s) ==
    {t \in Tasks : /\ pc[t] = "idle" /\ pc'[t] = "cr_start"
                   /\ op'[t] = "Reconnect" /\ rid'[t] = RouterOf(s)}

\* C27: when checkConnection's liveness command on a session returns, either
\* (failure) the session is marked unhealthy, the registry status of its router
\* is "error" and exactly one ConnectRouter goroutine is started for that
\* router, or (success) the session is marked healthy, the status is "online"
\* and no goroutine is started; on a session whose client is closed the command
\* can only fail.
C27_CheckOutcome ==
    [][\A s \in Sessions :
          (chk[s] = "running" /\ chk'[s] = "idle") =>
              /\ \/ /\ ~IsHealthy'[s]
                    /\ repoStatus'[RouterOf(s)] = "error"
                    /\ Cardinality(Started(s)) = 1
                    /\ \A t \in Tasks \ Started(s) : pc'[t] = pc[t] /\ op'[t] = op[t]
                 \/ /\ IsHealthy'[s]
                    /\ repoStatus'[RouterOf(s)] = "online"
                    /\ pc' = pc /\ op' = op
              /\ client[s] # "open" => ~IsHealthy'[s]]_vars

\* a liveness command has failed on router 1's session: it is still the map
\* entry, marked unhealthy, the status is "error", and the one reconnect
\* goroutine has not yet taken ms.mu
C27_Witness ==
    /\ connections[1] = <<1, 1>> /\ ~IsHealthy[<<1, 1>>]
    /\ chk[<<1, 1>>] = "idle"
    /\ repoStatus[1] = "error"
    /\ Cardinality({t \in Tasks : op[t] = "Reconnect" /\ pc[t] = "cr_start"}) = 1

\* ---- C28
\* task t's ConnectRouter takes ms.mu and finds an unhealthy connection for its
\* router in the map
FindsUnhealthy(t) ==
    /\ pc[t] = "cr_start" /\ pc'[t] # "cr_start"
    /\ connections[rid[t]] # NoConn
    /\ ~IsHealthy[connections[rid[t]]]

\* C28: the step of ConnectRouter that finds an unhealthy connection closes its
\* client and deletes the map entry; a dial is in progress only while the
\* router has no map entry; a closed client stays closed and is never the
\* client of a map entry, so an evicted connection is never installed again
\* and is never the entry left behind when ConnectRouter returns.
C28_EvictedNeverReinstalled ==
    /\ [][\A t \in Tasks :
             FindsUnhealthy(t) =>
                 /\ client'[connections[rid[t]]] = "closed"
                 /\ connections'[rid[t]] = NoConn]_vars
    /\ [][\A s \in Sessions : client[s] = "closed" => client'[s] = "closed"]_vars
    /\ [](\A t \in Tasks : pc[t] = "cr_dial" => connections[rid[t]] = NoConn)
    /\ [](\A d \in Routers :
             connections[d] # NoConn => client[connections[d]] # "closed")

\* ConnectRouter has evicted router 1's first connection as unhealthy, dialled
\* again and returned with the second connection installed
C28_Witness ==
    /\ client[<<1, 1>>] = "closed" /\ ~IsHealthy[<<1, 1>>]
    /\ connections[1] = <<1, 2>>
    /\ \E t \in Tasks : pc[t] = "done" /\ op[t] = "Reconnect" /\ err[t] = ""

\* ---- C29
\* task t's ConnectRouter takes ms.mu and finds a healthy connection for its
\* router in the map
FindsHealthy(t) ==
    /\ pc[t] = "cr_start" /\ pc'[t] # "cr_start"
    /\ connections[rid[t]] # NoConn
    /\ IsHealthy[connections[rid[t]]]

\* C29: the step of ConnectRouter that finds a healthy connection returns nil
\* at once: the map, every client, the dial count, the health flags and the
\* registry are as before, ms.mu is free again and the call carries no error.
C29_HealthyConnectIsNoOp ==
    [][\A t \in Tasks :
          FindsHealthy(t) =>
              /\ UNCHANGED <<connections, client, dialCount, IsHealthy, mu>>
              /\ UNCHANGED <<repoStatus, repoVersion, repoActive>>
              /\ err'[t] = "" /\ pc'[t] # "cr_dial"
              /\ op[t] \in {"Connect", "Reconnect"} => pc'[t] = "done"]_vars

\* two ConnectRouter calls for router 1 have returned nil after a single dial:
\* the later one found the healthy connection of the earlier one
C29_Witness ==
    /\ \A t \in Tasks : pc[t] = "done" /\ op[t] = "Connect" /\ err[t] = ""
    /\ dialCount[1] = 1
    /\ connections[1] = <<1, 1>> /\ IsHealthy[<<1, 1>>]

\* ---- C30
\* C30: GetConnection never reaches its `conn.IsHealthy` test with a nil
\* connection, and so never ends in the nil dereference: whatever
\* DisconnectRouter, Close or another ConnectRouter did between its own
\* ConnectRouter call and its second read of the map.
C30_GetConnectionNeverNil ==
    \A t \in Tasks :
        /\ pc[t] = "gc_health" => conn[t] # NoConn
        /\ err[t] # "nilpanic"

\* ---- C31
\* session s's client is in the hands of a ConnectRouter call that is between
\* its dial and its store
Held(s) ==
    \E t \in Tasks : pc[t] \in {"cr_dial", "cr_sysinfo"} /\ DialSid(t) = s

\* C31: every client that has completed login and is not closed is the client
\* of a map entry, or is still held by the ConnectRouter call that dialled it;
\* in particular no client is left open by a worker whose login completed after
\* dialWithTimeout returned the timeout error.
C31_NoOrphanClient ==
    \A s \in Sessions :
        client[s] \in {"open", "leaked"} =>
            \/ connections[RouterOf(s)] = s
            \/ Held(s)

\* ---- C32
\* DisconnectRouter(1) has returned nil, the state is as it left it, and no
\* client request is in progress
Disconnected ==
    /\ \E t \in Tasks : pc[t] = "done" /\ op[t] = "Disconnect" /\ err[t] = ""
    /\ \A t \in Tasks : pc[t] \in {"idle", "done"}
    /\ connections[1] = NoConn
    /\ repoStatus[1] = "offline"

\* a step in which no client issues a request
NoRequest ==
    \A t \in Tasks : pc'[t] = pc[t] \/ op'[t] = "Reconnect"

\* C32: after a successful DisconnectRouter(1), every step that is not a new
\* client request leaves router 1 without a map entry and leaves its registry
\* status "offline", health checks on a connection snapshotted before the
\* disconnect included.
C32_DisconnectedStaysOffline ==
    [][(Disconnected /\ NoRequest) =>
          (connections'[1] = NoConn /\ repoStatus'[1] = "offline")]_vars

\* ---- C33
\* C33: no step closes the client of a connection while a task holds that
\* connection's command lock and is executing a command on it, and no command
\* is executing on a connection whose client is closed.
C33_NoCloseUnderCommand ==
    /\ [][\A s \in Sessions :
             (client[s] = "open" /\ client'[s] = "closed") => Running(s) = {}]_vars
    /\ [](\A s \in Sessions : Running(s) # {} => client[s] # "closed")

\* ---- C34
\* C34: a task that holds ms.mu holds no connection's command lock and waits
\* for none: it is inside ConnectRouter's dial or store, which it can always
\* finish; and a task that holds a command lock can always finish its command,
\* so neither lock is ever held by a task waiting for the other.
C34_LocksNeverNested ==
    /\ \A t \in mu :
          /\ \A s \in Sessions : t \notin Running(s) /\ t \notin connMuR[s]
          /\ pc[t] \in {"cr_dial", "cr_sysinfo"}
          /\ pc[t] = "cr_dial" => ENABLED dialWithTimeoutExpired(t)
          /\ pc[t] = "cr_sysinfo" => ENABLED ConnectRouterStore(t, TRUE)
    /\ \A s \in Sessions : \A t \in Running(s) :
          t \notin mu /\ ENABLED RunEnd(t)

\* one task holds ms.mu inside ConnectRouter's dial while another task holds a
\* command lock and executes a command
C34_Witness ==
    \E t, u \in Tasks :
        /\ t \in mu /\ pc[t] = "cr_dial"
        /\ pc[u] = "cmd_run" /\ connMuW[conn[u]] = "cmd"

\* ---- C35
\* client c's handler has marked its socket closed: wsOpen was set and is
\* false again
MarkedClosed(c) == hpc[c] # "none" /\ ~wsOpen[c]

\* C35: once a streaming session's socket is marked closed it stays so, no
\* status event is written, no callback is inside a traffic_update write, and
\* (the pong and the status events being written only `if wsOpen`, under
\* wsMutex) the flag is never cleared while the handler or the read goroutine
\* holds wsMutex for such a write.
C35_NoWriteAfterClose ==
    /\ [][\A c \in Clients :
             MarkedClosed(c) => (~wsOpen'[c] /\ events'[c] = events[c])]_vars
    /\ [][\A c \in Clients :
             (wsOpen[c] /\ ~wsOpen'[c]) =>
                 wsMutex[c] \notin {<<"main", 0>>, <<"reader", 0>>}]_vars
    /\ [](\A k \in Subs :
             subs[k].gpc = "cb_write" =>
                 wsOpen[subs[k].ctx] /\ wsMutex[subs[k].ctx] = <<"cb", k>>)

\* a traffic_update write has failed and marked client A's socket closed while
\* its handler still waits; a second callback holds a sample for A and the
\* read goroutine holds a pong
C35_Witness ==
    /\ MarkedClosed("A") /\ hpc["A"] = "wait"
    /\ \E k \in Subs : subs[k].ctx = "A" /\ subs[k].gpc = "cb_lock"
    /\ rpc["A"] = "pong_lock"

\* ---- C36
\* task t is inside EnableInterface / DisableInterface, between conn.mu.Lock()
\* and the deferred Unlock
Toggling(t) == op[t] = "EnableInterface" /\ pc[t] \in {"cmd_run", "cmd_set"}

\* C36: from its lookup to the end of its set command EnableInterface /
\* DisableInterface holds the connection's command lock and is the only
\* locked command in flight on it; the lookup step either keeps the lock and
\* goes on to the set command, or releases it and returns an error; a call
\* that returns "not found" comes straight from the lookup with no set command
\* sent.
C36_LookupAndSetUnderOneLock ==
    /\ [](\A t \in Tasks :
             Toggling(t) =>
                 /\ connMuW[conn[t]] = "cmd" /\ connMuR[conn[t]] = {}
                 /\ Running(conn[t]) = {t}
                 /\ chk[conn[t]] # "running")
    /\ [][\A t \in Tasks :
             (Toggling(t) /\ pc[t] = "cmd_run" /\ pc'[t] # "cmd_run") =>
                 \/ pc'[t] = "cmd_set" /\ err'[t] = ""
                 \/ pc'[t] = "done" /\ err'[t] \in {"notfound", "cmderr"}]_vars
    /\ [][\A t \in Tasks :
             (pc[t] = "cmd_set" /\ pc'[t] # "cmd_set") =>
                 pc'[t] = "done" /\ err'[t] # "notfound"]_vars

\* one call is between its lookup and its set command while a plain write
\* command waits for the lock, in line behind it
C36_Witness ==
    \E t, u \in Tasks :
        /\ op[t] = "EnableInterface" /\ pc[t] = "cmd_set"
        /\ op[u] = "WriteCmd" /\ pc[u] = "cmd_lock" /\ conn[u] = conn[t]
        /\ lockq[conn[t]] = <<u>>

\* ---- C37
\* subscription k is open on the device while its client's context is cancelled
OpenCancelled(k) == subs[k].state = "open" /\ CtxDone(k)

\* C37: a subscription that is open while its streaming client's context is
\* cancelled is eventually cancelled on the device, whether it was opened
\* before the cancellation, after it, or after the handler returned; a
\* cancelled context stays cancelled, and under a cancelled context no further
\* sample is passed to the callback, so a subscription opened late delivers
\* none.
C37_CancelledScopeEndsSubscriptions ==
    /\ \A k \in Subs : OpenCancelled(k) ~> (subs[k].state = "cancelled")
    /\ [][\A c \in Clients : ctxDone[c] => ctxDone'[c]]_vars
    /\ [][\A k \in Subs :
             OpenCancelled(k) => subs'[k].delivered = subs[k].delivered]_vars

\* client A's handler has returned; a subscription opened for it is open on the
\* device with a sample waiting in its channel, and has delivered nothing
C37_Witness ==
    \E k \in Subs :
        /\ OpenCancelled(k) /\ subs[k].ctx = "A"
        /\ hpc["A"] = "exited"
        /\ subs[k].delivered = 0 /\ subs[k].chan # <<>>

\* ---- C38
\* C38: at most one MikrotikService is ever made and each background goroutine
\* is started at most once; serviceInstance, once set, is that one service;
\* and every call of GetMikrotikService that has returned, from whichever
\* caller and however often, returned it, with the service made and both
\* goroutines started exactly once by then.
C38_OneServiceInstance ==
    /\ started.made <= 1 /\ started.auto <= 1 /\ started.sweep <= 1
    /\ serviceInstance \in {0, 1}
    /\ serviceInstance = 1 => started.made = 1
    /\ \A c \in Callers :
          setup[c].pc = "returned" =>
              /\ setup[c].got = 1 /\ serviceInstance = 1
              /\ started = [auto |-> 1, sweep |-> 1, made |-> 1]

\* two callers have returned with the service while the third, which found the
\* Once's mutex taken or done set, is about to return
C38_Witness ==
    /\ setup["SetupRoutes"] = [pc |-> "returned", got |-> 1]
    /\ setup["SetupWebSocketRoutes"] = [pc |-> "returned", got |-> 1]
    /\ setup["other"].pc = "return"
    /\ started = [auto |-> 1, sweep |-> 1, made |-> 1]

\* ---- C39
\* C39: a dial worker that has not yet delivered its result can always deliver
\* it and end, whether the device let the login succeed or not and whether
\* dialWithTimeout still waits for it or has returned the timeout error.
C39_WorkerNeverBlocks ==
    \A s \in Sessions :
        client[s] \in {"dialing", "abandoned"} =>
            ENABLED dialWorker(s, TRUE) /\ ENABLED dialWorker(s, FALSE)

\* ConnectRouter has returned the timeout error and released ms.mu while the
\* worker of its dial is still at work
C39_Witness ==
    /\ client[<<1, 1>>] = "abandoned"
    /\ mu = {}
    /\ \E t \in Tasks : pc[t] = "done" /\ err[t] = "timeout"

====
